---- MODULE Spec2Model ----
(***************************************************************************)
(* Path identity store of video-library-pipeline (mediaops.sqlite) and the *)
(* batch programs that mutate it:                                          *)
(*   update_db_paths_from_move_apply.py  (move-apply / collision merge)    *)
(*   dedup_recordings.py                 (dedup apply step)                *)
(*   ingest_inventory_jsonl.py           (inventory ingest)                *)
(* Strings that the code takes apart (paths, path ids) are sequences of    *)
(* one-character strings; SQL NULL / Python None of such a column is NULL. *)
(***************************************************************************)
EXTENDS Integers, Sequences, FiniteSets, TLC

\* ------------------------------------------------------------------ bounds
\* input consumed over one behaviour, all batches together: every batch
\* counts for the records of its artifact, an empty artifact for one
MaxWork == 2

\* ------------------------------------------------------------ string layer
BS == "\\"
FS == "/"
NULL == <<"NULL">>
EMPTY == <<>>

\* str.replace(from, to) for one-character patterns
Replace(s, from, to) == [i \in 1..Len(s) |-> IF s[i] = from THEN to ELSE s[i]]

\* str.lower() on the characters the path universe uses
LowerChar(c) ==
  CASE c = "C" -> "c" [] c = "D" -> "d" [] c = "A" -> "a" [] c = "B" -> "b" [] OTHER -> c
\* str.upper() on the characters the path universe uses
UpperChar(c) ==
  CASE c = "c" -> "C" [] c = "d" -> "D" [] c = "a" -> "A" [] c = "b" -> "B" [] OTHER -> c

FirstIndexOf(s, c) ==
  IF \E i \in 1..Len(s) : s[i] = c
  THEN CHOOSE i \in 1..Len(s) : s[i] = c /\ \A j \in 1..(i - 1) : s[j] # c
  ELSE 0
LastIndexOf(s, c) ==
  IF \E i \in 1..Len(s) : s[i] = c
  THEN CHOOSE i \in 1..Len(s) : s[i] = c /\ \A j \in (i + 1)..Len(s) : s[j] # c
  ELSE 0

\* Python truthiness of an optional string: None and "" are falsy
Truthy(s) == s # NULL /\ s # EMPTY

\* update_db_paths_from_move_apply.split_win: (p, dir, name) by splitting on "\"
split_win(p) ==
  LET q == Replace(p, FS, BS)
      k == LastIndexOf(q, BS)
  IN [full |-> q, dir |-> SubSeq(q, 1, k - 1), name |-> SubSeq(q, k + 1, Len(q))]

\* -------------------------------------------- pathlib.PureWindowsPath pieces
\* components of s between separators, empty components dropped
RECURSIVE Parts(_)
Parts(s) ==
  IF s = EMPTY THEN <<>>
  ELSE LET k == FirstIndexOf(s, BS)
       IN IF k = 0 THEN <<s>>
          ELSE (IF k = 1 THEN <<>> ELSE <<SubSeq(s, 1, k - 1)>>)
               \o Parts(SubSeq(s, k + 1, Len(s)))

RECURSIVE Join(_)
Join(parts) ==
  IF parts = <<>> THEN EMPTY
  ELSE IF Len(parts) = 1 THEN parts[1]
  ELSE parts[1] \o <<BS>> \o Join(Tail(parts))

\* drive, name, suffix and str(parent) of PureWindowsPath(p), for
\* drive-letter and relative paths (no UNC shares): the path is split into
\* drive, root and parts, and the attributes are read off these
PureWindowsPath(p) ==
  LET Drive(q) == IF Len(q) >= 2 /\ q[2] = ":" THEN SubSeq(q, 1, 2) ELSE EMPTY
      Root(rest) == IF Len(rest) >= 1 /\ rest[1] = BS THEN <<BS>> ELSE EMPTY
      Name(parts) == IF parts = <<>> THEN EMPTY ELSE parts[Len(parts)]
      SuffixAt(name, dot) ==
        IF dot > 1 /\ dot < Len(name) THEN SubSeq(name, dot, Len(name)) ELSE EMPTY
      Suffix(name) == SuffixAt(name, LastIndexOf(name, "."))
      Parent(drive, root, parts) ==
        IF parts = <<>> THEN drive \o root
        ELSE drive \o root \o Join(SubSeq(parts, 1, Len(parts) - 1))
      Str(par) == IF par = EMPTY THEN <<".">> ELSE par
      Attrs(drive, root, parts) ==
        [drive |-> drive, name |-> Name(parts), suffix |-> Suffix(Name(parts)),
         parent |-> Str(Parent(drive, root, parts))]
      SplitRest(drive, rest) == Attrs(drive, Root(rest), Parts(rest))
      SplitDrive(q, drive) == SplitRest(drive, SubSeq(q, Len(drive) + 1, Len(q)))
  IN SplitDrive(Replace(p, FS, BS), Drive(Replace(p, FS, BS)))

\* ingest_inventory_jsonl.split_path: (drive, parent, name, ext), falsy -> None
split_path(p) ==
  LET Tuple(wp) ==
        [drive |-> IF wp.drive # EMPTY /\ wp.drive[Len(wp.drive)] = ":"
                   THEN SubSeq(wp.drive, 1, Len(wp.drive) - 1)
                   ELSE IF wp.drive = EMPTY THEN NULL ELSE wp.drive,
         dir   |-> IF wp.parent \in {<<".">>, EMPTY} THEN NULL ELSE wp.parent,
         name  |-> IF wp.name = EMPTY THEN NULL ELSE wp.name,
         ext   |-> IF wp.suffix = EMPTY THEN NULL ELSE wp.suffix]
  IN Tuple(PureWindowsPath(p))

\* ingest_inventory_jsonl.normalize_win_path
normalize_win_path(p) ==
  LET q == Replace(p, FS, BS) IN [i \in 1..Len(q) |-> LowerChar(q[i])]

\* uuid.uuid5(PATH_NAMESPACE, name): deterministic and collision-free, so the
\* id is represented by the name it hashes
\* and the namespace it is hashed in, tagged "#"
uuid5(namespace, name) == <<"#", namespace>> \o name

\* ingest_inventory_jsonl.PATH_NAMESPACE
PATH_NAMESPACE == "f4f67a6f-90c6-4ee4-9c1a-2c0d25b3b0c4"

\* ingest_inventory_jsonl.path_id_for
path_id_for(p) == uuid5(PATH_NAMESPACE, <<"winpath:">> \o normalize_win_path(p))

\* backfill_moved_files: PATH_NAMESPACE, normalize_win_for_id, path_id_for
backfill_PATH_NAMESPACE == "f4f67a6f-90c6-4ee4-9c1a-2c0d25b3b0c4"
\* (mutant) the id is derived without lower-casing
backfill_normalize_win_for_id_KeepsCase(p) == Replace(p, FS, BS)
backfill_normalize_win_for_id(p) ==
  [i \in 1..Len(p) |-> LowerChar(Replace(p, FS, BS)[i])]
backfill_path_id_for(p) ==
  uuid5(backfill_PATH_NAMESPACE, <<"winpath:">> \o backfill_normalize_win_for_id(p))

\* pathscan_common.normalize_win_for_id
normalize_win_for_id(p) == [i \in 1..Len(p) |-> LowerChar(Replace(p, FS, BS)[i])]
\* relocate_existing_files: PATH_NAMESPACE, path_id_for
relocate_PATH_NAMESPACE == "f4f67a6f-90c6-4ee4-9c1a-2c0d25b3b0c4"
relocate_path_id_for(p) ==
  uuid5(relocate_PATH_NAMESPACE, <<"winpath:">> \o normalize_win_for_id(p))

\* ------------------------------------------------------------ the universe
\* paths of the two inventoried files: SrcA in a directory, SrcB directly
\* under the drive root
SrcA == <<"D", ":", BS, "d", BS, "a">>
SrcB == <<"C", ":", BS, "b">>
\* destinations named by mover outcomes: DstB is the location of SrcB
\* written with forward slashes, DstZ a location no seed row owns
DstB == <<"C", ":", FS, "b">>
DstZ == <<"C", ":", BS, "d", BS, "z">>
IdA == path_id_for(SrcA)
IdB == path_id_for(SrcB)
\* a path id no inventoried path hashes to
IdGhost == uuid5(PATH_NAMESPACE, <<"ghost">>)

\* run references: run ids are 1, 2, ... (uuid4: fresh each batch), 0 is NULL
NULLRUN == 0

\* generic table helpers (tables are functions from key to row)
Upsert(f, k, v) == [x \in (DOMAIN f) \cup {k} |-> IF x = k THEN v ELSE f[x]]
Remove(f, K) == [x \in (DOMAIN f) \ K |-> f[x]]
EmptyTable == [x \in {} |-> 0]
Max2(a, b) == IF a >= b THEN a ELSE b

\* ---------------------------------------------------------- collision merge
\* (mutant) the rank ignores human_reviewed
_metadata_rank_IgnoresReview(md, path_id) ==
  IF path_id \notin DOMAIN md THEN <<-1, -1>>
  ELSE <<0, md[path_id].updated_at>>

\* _metadata_rank of the row of path_id: (human_reviewed as 0/1, updated_at);
\* a missing row (None) ranks (-1, ""); data.get gives None, hence 0, for an
\* object without the key
\* (updated_at is a logical timestamp >= 0, "" is below every timestamp)
_metadata_rank(md, path_id) ==
  IF path_id \notin DOMAIN md THEN <<-1, -1>>
  ELSE <<IF /\ "human_reviewed" \in DOMAIN md[path_id].data_json
            /\ md[path_id].data_json.human_reviewed
         THEN 1 ELSE 0,
         md[path_id].updated_at>>

\* Python tuple comparison a > b for pairs
PairGt(a, b) == a[1] > b[1] \/ (a[1] = b[1] /\ a[2] > b[2])

\* (mutant) the source's metadata row is deleted only when it overwrote the
\* destination's
_merge_path_metadata_KeepsLoser(md, src_path_id, dst_path_id) ==
  IF src_path_id \notin DOMAIN md THEN [table |-> md, action |-> "none"]
  ELSE IF dst_path_id \notin DOMAIN md
  THEN [table  |-> Upsert(Remove(md, {src_path_id}), dst_path_id, md[src_path_id]),
        action |-> "moved_src_to_dst"]
  ELSE IF PairGt(_metadata_rank(md, src_path_id), _metadata_rank(md, dst_path_id))
  THEN [table  |-> Remove(Upsert(md, dst_path_id, md[src_path_id]), {src_path_id}),
        action |-> "src_overwrote_dst"]
  ELSE [table |-> md, action |-> "kept_dst"]

\* _merge_path_metadata on the path_metadata table (key path_id)
_merge_path_metadata(md, src_path_id, dst_path_id) ==
  IF src_path_id \notin DOMAIN md THEN [table |-> md, action |-> "none"]
  ELSE IF dst_path_id \notin DOMAIN md
  THEN [table  |-> Upsert(Remove(md, {src_path_id}), dst_path_id, md[src_path_id]),
        action |-> "moved_src_to_dst"]
  ELSE IF PairGt(_metadata_rank(md, src_path_id), _metadata_rank(md, dst_path_id))
  THEN [table  |-> Remove(Upsert(md, dst_path_id, md[src_path_id]), {src_path_id}),
        action |-> "src_overwrote_dst"]
  ELSE [table |-> Remove(md, {src_path_id}), action |-> "kept_dst"]

\* (mutant) ON CONFLICT(run_id, path_id) DO NOTHING: the destination's row stays
_repoint_observations_KeepsDst(obs, src_path_id, dst_path_id) ==
  LET rows == {k \in DOMAIN obs : k[2] = src_path_id}
      keep == (DOMAIN obs) \ rows
  IN [table |-> [k \in keep \cup {<<r[1], dst_path_id>> : r \in rows} |->
                   IF k \in keep THEN obs[k] ELSE obs[<<k[1], src_path_id>>]],
      n |-> Cardinality(rows)]

\* _repoint_observations on the observations table (key <<run_id, path_id>>)
_repoint_observations(obs, src_path_id, dst_path_id) ==
  LET rows == {k \in DOMAIN obs : k[2] = src_path_id}
      keep == (DOMAIN obs) \ rows
  IN [table |-> [k \in keep \cup {<<r[1], dst_path_id>> : r \in rows} |->
                   IF <<k[1], src_path_id>> \in rows /\ k[2] = dst_path_id
                   THEN obs[<<k[1], src_path_id>>] ELSE obs[k]],
      n |-> Cardinality(rows)]

\* COALESCE of two run references
Coalesce(a, b) == IF a # NULLRUN THEN a ELSE b

\* (mutant) the source's links are copied to the destination but not deleted
_repoint_file_paths_KeepsSrc(fp, src_path_id, dst_path_id) ==
  LET rows == {k \in DOMAIN fp : k[2] = src_path_id}
  IN [table |-> [k \in (DOMAIN fp) \cup {<<r[1], dst_path_id>> : r \in rows} |->
        IF <<k[1], src_path_id>> \in rows /\ k[2] = dst_path_id
        THEN fp[<<k[1], src_path_id>>] ELSE fp[k]],
      n |-> Cardinality(rows)]

\* _repoint_file_paths on the file_paths table (key <<file_id, path_id>>)
_repoint_file_paths(fp, src_path_id, dst_path_id) ==
  LET rows == {k \in DOMAIN fp : k[2] = src_path_id}
      keep == (DOMAIN fp) \ rows
  IN [table |-> [k \in keep \cup {<<r[1], dst_path_id>> : r \in rows} |->
        IF <<k[1], src_path_id>> \in rows /\ k[2] = dst_path_id
        THEN LET excluded == fp[<<k[1], src_path_id>>]
             IN IF k \in DOMAIN fp
                THEN [is_current |-> Max2(fp[k].is_current, excluded.is_current),
                      first_seen_run_id |->
                        Coalesce(fp[k].first_seen_run_id, excluded.first_seen_run_id),
                      last_seen_run_id |->
                        Coalesce(excluded.last_seen_run_id, fp[k].last_seen_run_id)]
                ELSE excluded
        ELSE fp[k]],
      n |-> Cardinality(rows)]

\* _repoint_path_tags on the path_tags table (key <<path_id, tag_id, source>>,
\* row = updated_at)
_repoint_path_tags(tags, src_path_id, dst_path_id) ==
  LET rows == {k \in DOMAIN tags : k[1] = src_path_id}
      keep == (DOMAIN tags) \ rows
  IN [table |-> [k \in keep \cup {<<dst_path_id, r[2], r[3]>> : r \in rows} |->
        IF <<src_path_id, k[2], k[3]>> \in rows /\ k[1] = dst_path_id
        THEN LET excluded == tags[<<src_path_id, k[2], k[3]>>]
             IN IF k \in DOMAIN tags
                THEN (IF excluded > tags[k] THEN excluded ELSE tags[k])
                ELSE excluded
        ELSE tags[k]],
      n |-> Cardinality(rows)]

\* _repoint_events on the events table (a sequence, event_id = index)
_repoint_events(events, src_path_id, dst_path_id) ==
  [table |-> [i \in 1..Len(events) |->
                [events[i] EXCEPT
                   !.src_path_id = IF @ = src_path_id THEN dst_path_id ELSE @,
                   !.dst_path_id = IF @ = src_path_id THEN dst_path_id ELSE @]],
   n_src |-> Cardinality({i \in 1..Len(events) : events[i].src_path_id = src_path_id}),
   n_dst |-> Cardinality({i \in 1..Len(events) : events[i].dst_path_id = src_path_id})]

\* _merge_path_collision: the store after merging src_path_id into dst_path_id,
\* and the merge_info dict
_merge_path_collision(d, src_path_id, dst_path_id, dst_full, dst_dir, dst_name, ts_now) ==
  LET obs  == _repoint_observations(d.observations, src_path_id, dst_path_id)
      md   == _merge_path_metadata(d.path_metadata, src_path_id, dst_path_id)
      fp   == _repoint_file_paths(d.file_paths, src_path_id, dst_path_id)
      tags == _repoint_path_tags(d.path_tags, src_path_id, dst_path_id)
      ev   == _repoint_events(d.events, src_path_id, dst_path_id)
      upd  == [d.paths EXCEPT ![dst_path_id] =
                 [@ EXCEPT !.path = dst_full, !.dir = dst_dir,
                           !.name = dst_name, !.updated_at = ts_now]]
  IN [db |-> [d EXCEPT !.observations = obs.table,
                       !.path_metadata = md.table,
                       !.file_paths = fp.table,
                       !.path_tags = tags.table,
                       !.events = ev.table,
                       !.paths = Remove(upd, {src_path_id})],
      info |-> [observations_repointed |-> obs.n,
                path_metadata_action   |-> md.action,
                file_paths_repointed   |-> fp.n,
                path_tags_repointed    |-> tags.n,
                events_repointed_src   |-> ev.n_src,
                events_repointed_dst   |-> ev.n_dst]]

\* ------------------------------------------------------------------- state
VARIABLES
  db,           \* mediaops.sqlite: paths, observations, path_metadata,
                \*   file_paths, path_tags, events, runs
  fk,           \* whether the connection enforces the declared foreign keys
  snapshot,     \* the store when the open transaction began (rollback target)
  clock,        \* now_iso(), as a logical timestamp
  nruns,        \* run ids issued so far (uuid4)
  pc,           \* position of the running program
  applied,      \* the apply artifact (JSONL records) of the running program
  move_rows,    \* main(): rows selected from the artifact
  idx,          \* main(): position of the row loop
  rows_events,  \* main(): Event tuples collected for the final executemany
  counters,     \* main(): updated / merged / already_applied / missing counts
  run_id,       \* main(): run id of the running batch
  nread,        \* input consumed so far, all batches together
  batches,      \* history: one summary per finished batch
  scan,         \* input of a planner or of a pure function under test
  plan          \* what the planner or function has produced so far

vars == <<db, fk, snapshot, clock, nruns, pc, applied, move_rows, idx,
          rows_events, counters, run_id, nread, batches, scan, plan>>
locals == <<applied, move_rows, idx, rows_events, counters, run_id>>

NULLTS == -1
NULLSTR == "NULL"

\* the paths row written by the inventory upsert for path p at time ts
InventoryPathRow(p, ts) ==
  LET Row(sp) == [path |-> p, drive |-> sp.drive, dir |-> sp.dir, name |-> sp.name,
                  ext |-> sp.ext, created_at |-> ts, updated_at |-> ts]
  IN Row(split_path(p))

\* externally imported dependent rows the seed store may hold
MdRows ==
  { [source |-> "llm",   data_json |-> [human_reviewed |-> FALSE], updated_at |-> 1],
    [source |-> "rules", data_json |-> [human_reviewed |-> FALSE], updated_at |-> 1],
    [source |-> "rules", data_json |-> [human_reviewed |-> FALSE], updated_at |-> 2],
    [source |-> "human", data_json |-> [human_reviewed |-> TRUE],  updated_at |-> 1] }
FpRows ==
  { [is_current |-> 1, first_seen_run_id |-> 1, last_seen_run_id |-> NULLRUN],
    [is_current |-> 0, first_seen_run_id |-> NULLRUN, last_seen_run_id |-> 1] }
TagStamps == {1, 2}
SeedIds == {IdA, IdB}

PartialFns(K, V) == UNION { [S -> V] : S \in SUBSET K }
AllMd   == PartialFns(SeedIds, MdRows)
AllFp   == PartialFns({<<"f1", i>> : i \in SeedIds}, FpRows)
AllTags == PartialFns({<<i, 1, "tablacus">> : i \in SeedIds}, TagStamps)
AllObs  == SUBSET SeedIds

\* the store after inventory run 1 registered SrcA and SrcB, with the given
\* dependent rows
SeedDb(obs, md, fp, tags) ==
  [paths |-> [i \in SeedIds |-> InventoryPathRow(IF i = IdA THEN SrcA ELSE SrcB, 1)],
   observations |-> [k \in {<<1, i>> : i \in obs} |->
                       [size_bytes |-> IF k[2] = IdA THEN 100 ELSE 200,
                        mtime_utc |-> 0]],
   path_metadata |-> md,
   file_paths |-> fp,
   path_tags |-> tags,
   events |-> <<>>,
   runs |-> [r \in {1} |-> [kind |-> "inventory", started_at |-> 0, finished_at |-> 1]]]

\* seed store of the batch specification: every table populated for both paths
SeedRich ==
  SeedDb(SeedIds,
         [i \in SeedIds |-> [source |-> "llm", data_json |-> [human_reviewed |-> FALSE],
                             updated_at |-> IF i = IdA THEN 2 ELSE 1]],
         [k \in {<<"f1", i>> : i \in SeedIds} |->
            [is_current |-> 1, first_seen_run_id |-> 1, last_seen_run_id |-> NULLRUN]],
         [k \in {<<i, 1, "tablacus">> : i \in SeedIds} |-> 1])

ZeroCounters ==
  [updated |-> 0, merged_conflicts |-> 0, already_applied |-> 0,
   missing_src_path_rows |-> 0, files_moved |-> 0, errors |-> 0,
   lines |-> 0, paths_upserted |-> 0, obs_upserted |-> 0]

\* no planner is running
NoScan == <<>>
NoPlan == <<>>

\* the store and the apply programs before any batch
StoreInit(seeds, consumed) ==
  /\ db \in seeds
  /\ fk \in BOOLEAN
  /\ snapshot = db
  /\ clock = 2
  /\ nruns = 1
  /\ pc = "idle"
  /\ applied = <<>>
  /\ move_rows = <<>>
  /\ idx = 0
  /\ rows_events = <<>>
  /\ counters = ZeroCounters
  /\ run_id = NULLRUN
  /\ nread = consumed
  /\ batches = <<>>

InitWith(seeds, consumed) ==
  /\ StoreInit(seeds, consumed)
  /\ scan = NoScan
  /\ plan = NoPlan

Init == InitWith({SeedRich}, 0)

\* ------------------------------------------------------- apply artifacts
\* records of a move_apply JSONL: mover outcomes and other lines
MoveOk(pid, dst) ==
  [op |-> "move", ok |-> TRUE, path_id |-> pid, src |-> NULL, dst |-> dst,
   error |-> NULLSTR]
Records ==
  { MoveOk(IdA, DstB), MoveOk(IdA, DstZ), MoveOk(IdB, DstZ),
    MoveOk(IdGhost, DstB), MoveOk(IdGhost, DstZ),
    \* a move the mover reports as failed
    [op |-> "move", ok |-> FALSE, path_id |-> IdB, src |-> NULL, dst |-> DstZ,
     error |-> "access denied"],
    \* a successful move reported without a destination
    [op |-> "move", ok |-> TRUE, path_id |-> IdB, src |-> NULL, dst |-> NULL,
     error |-> NULLSTR],
    \* a line that is not a move outcome
    [op |-> "mkdir", ok |-> TRUE, path_id |-> NULL, src |-> NULL, dst |-> DstZ,
     error |-> NULLSTR] }

Cost(art) == Max2(1, Len(art))

Artifacts(n) == UNION { [1..k -> Records] : k \in 0..n }

\* --------------------------------- update_db_paths_from_move_apply.main
\* the filter loop over the artifact: only successful move outcomes that
\* carry a path_id and a dst become move_rows; ts defaults to now_iso()
ReadMoveRows(art, now) ==
  LET sel == SelectSeq(art, LAMBDA rec : /\ rec.op = "move"
                                          /\ rec.ok
                                          /\ Truthy(rec.path_id)
                                          /\ Truthy(rec.dst))
  IN [i \in 1..Len(sel) |->
        LET w == split_win(sel[i].dst)
        IN [path_id |-> sel[i].path_id, src |-> sel[i].src, dst |-> w.full,
            dir |-> w.dir, name |-> w.name, ts |-> now]]

\* what the batch leaves behind when the process ends
Summary(k, outcome, post) ==
  [kind |-> k, applied |-> applied, outcome |-> outcome, run_id |-> run_id,
   pre |-> snapshot, inflight |-> db, post |-> post, move_rows |-> move_rows,
   counters |-> counters, events |-> Len(rows_events)]

Finish(k, outcome, post) ==
  /\ db' = post
  /\ snapshot' = post
  /\ batches' = Append(batches, Summary(k, outcome, post))
  /\ pc' = "idle"
  /\ applied' = <<>>
  /\ move_rows' = <<>>
  /\ idx' = 0
  /\ rows_events' = <<>>
  /\ counters' = ZeroCounters
  /\ run_id' = NULLRUN

\* (mutant) the error path leaves the rows written so far in place
Rollback_KeepsPartial(d, snap) == d

\* con.rollback(): the store returns to what it was when the transaction began
Rollback(d, snap) == snap

\* begin_immediate + INSERT INTO runs (finished_at NULL)
OpenRun(d, rid, k, started) ==
  [d EXCEPT !.runs = Upsert(@, rid, [kind |-> k, started_at |-> started,
                                     finished_at |-> NULLTS])]

\* UPDATE runs SET finished_at=? WHERE run_id=?
CloseRun(d, rid, finished) ==
  [d EXCEPT !.runs = [@ EXCEPT ![rid] = [@ EXCEPT !.finished_at = finished]]]

\* main(), up to the row loop: read the artifact, open the transaction,
\* insert the Run row
ApplyStart(art) ==
  /\ pc = "idle"
  /\ nread + Cost(art) <= MaxWork
  /\ nread' = nread + Cost(art)
  /\ applied' = art
  /\ move_rows' = ReadMoveRows(art, clock)
  /\ run_id' = nruns + 1
  /\ nruns' = nruns + 1
  /\ snapshot' = db
  /\ db' = OpenRun(db, nruns + 1, "apply", clock)
  /\ idx' = 1
  /\ rows_events' = <<>>
  /\ counters' = ZeroCounters
  /\ clock' = clock + 1
  /\ pc' = "apply_loop"
  /\ UNCHANGED <<scan, plan, fk, batches>>

\* (mutant) a missing source is registered at dst instead of being skipped
MissingSrcRow_Registers(d, row, detail, ts_now) ==
  [db |-> [d EXCEPT !.paths = Upsert(@, row.path_id,
             [path |-> row.dst, drive |-> NULL, dir |-> row.dir, name |-> row.name,
              ext |-> NULL, created_at |-> ts_now, updated_at |-> ts_now])],
   counter |-> "missing_src_path_rows", event_path_id |-> row.path_id,
   detail |-> [detail EXCEPT !.db_update = "src_path_id_missing_and_dst_not_found"]]

\* the branch for a row whose path_id has no Path row and whose dst no Path
\* row owns: count it, queue an Event without a path id, touch nothing
MissingSrcRow(d, row, detail, ts_now) ==
  [db |-> d, counter |-> "missing_src_path_rows", event_path_id |-> NULL,
   detail |-> [detail EXCEPT !.db_update = "src_path_id_missing_and_dst_not_found"]]

\* (mutant) the replayed row refreshes the destination's updated_at
AlreadyAppliedRow_Touches(d, detail, dst_id, ts_now) ==
  [db |-> [d EXCEPT !.paths[dst_id] = [@ EXCEPT !.updated_at = ts_now]],
   counter |-> "already_applied", event_path_id |-> dst_id,
   detail |-> [detail EXCEPT
     !.db_update = "already_applied_src_path_missing_dst_exists"]]

\* the branch for a row whose path_id has no Path row while a Path row owns
\* dst: count it, queue an Event naming the owner of dst, touch nothing
AlreadyAppliedRow(d, detail, dst_id, ts_now) ==
  [db |-> d, counter |-> "already_applied", event_path_id |-> dst_id,
   detail |-> [detail EXCEPT
     !.db_update = "already_applied_src_path_missing_dst_exists"]]

\* one iteration of `for row in move_rows`: the four cases, the store after
\* the iteration, the counter it bumps and the Event it queues
ApplyRowResult(d, row, ts_now) ==
  LET pid     == row.path_id
      dst_ids == {q \in DOMAIN d.paths : d.paths[q].path = row.dst}
      dst_id  == CHOOSE q \in dst_ids : TRUE
      detail  == [src |-> row.src, dst |-> row.dst, source |-> "apply_move_plan.ps1",
                  db_update |-> "", db_collision_with_path_id |-> NULL,
                  db_merge |-> <<>>]
  IN IF pid \notin DOMAIN d.paths
     THEN IF dst_ids # {}
          THEN AlreadyAppliedRow(d, detail, dst_id, ts_now)
          ELSE MissingSrcRow(d, row, detail, ts_now)
     ELSE IF dst_ids = {} \/ dst_id = pid
     THEN [db |-> [d EXCEPT !.paths[pid] =
                     [@ EXCEPT !.path = row.dst, !.dir = row.dir,
                               !.name = row.name, !.updated_at = ts_now]],
           counter |-> "updated", event_path_id |-> pid,
           detail |-> [detail EXCEPT !.db_update =
                         IF dst_ids # {} THEN "already_at_destination_path"
                         ELSE "updated_path_row"]]
     ELSE LET m == _merge_path_collision(d, pid, dst_id, row.dst, row.dir,
                                         row.name, ts_now)
          IN [db |-> m.db, counter |-> "merged_conflicts", event_path_id |-> dst_id,
              detail |-> [detail EXCEPT
                !.db_update = "merged_into_existing_destination_path_row",
                !.db_collision_with_path_id = dst_id,
                !.db_merge = <<m.info>>]]

ApplyRow ==
  /\ pc = "apply_loop"
  /\ idx <= Len(move_rows)
  /\ LET row == move_rows[idx]
         r   == ApplyRowResult(db, row, clock)
     IN /\ db' = r.db
        /\ counters' = [counters EXCEPT ![r.counter] = @ + 1]
        /\ rows_events' = Append(rows_events,
              [run_id |-> run_id, ts |-> row.ts, kind |-> "move",
               src_path_id |-> r.event_path_id, dst_path_id |-> NULL,
               detail_json |-> r.detail, ok |-> 1, error |-> NULLSTR])
  /\ idx' = idx + 1
  /\ clock' = clock + 1
  /\ UNCHANGED <<scan, plan, fk, snapshot, nruns, pc, applied, move_rows, run_id, nread, batches>>

\* the declared foreign keys of an events row (src_path_id, dst_path_id ->
\* paths.path_id, run_id -> runs.run_id) are satisfied in store d
EventFkOk(d, e) ==
  /\ e.src_path_id = NULL \/ e.src_path_id \in DOMAIN d.paths
  /\ e.dst_path_id = NULL \/ e.dst_path_id \in DOMAIN d.paths
  /\ e.run_id \in DOMAIN d.runs

\* after the loop: executemany INSERT INTO events, close the run, commit;
\* a foreign-key failure of an insert is an exception: rollback and raise
ApplyCommit ==
  /\ pc = "apply_loop"
  /\ idx > Len(move_rows)
  /\ IF fk /\ \E i \in 1..Len(rows_events) : ~EventFkOk(db, rows_events[i])
     THEN Finish("apply", "raised", Rollback(db, snapshot))
     ELSE Finish("apply", "committed",
                 CloseRun([db EXCEPT !.events = @ \o rows_events], run_id, clock))
  /\ clock' = clock + 1
  /\ UNCHANGED <<scan, plan, fk, nruns, nread>>

\* `except Exception: con.rollback(); raise` for an error raised inside the
\* row loop (I/O error, lock timeout, a value json.dumps rejects, ...)
ApplyRaise ==
  /\ pc = "apply_loop"
  /\ idx <= Len(move_rows)
  /\ Finish("apply", "raised", Rollback(db, snapshot))
  /\ UNCHANGED <<scan, plan, fk, clock, nruns, nread>>

\* ------------------------------------------ dedup_recordings.main (apply step)
\* dedup_recordings.canonicalize_windows_path: backslashes, upper-case drive
canonicalize_windows_path(raw) ==
  LET p == Replace(raw, FS, BS)
  IN IF Len(p) >= 2 /\ p[2] = ":" THEN <<UpperChar(p[1])>> \o Tail(p) ELSE p

\* dedup_recordings.split_win: (drive, dir, name, ext) through PureWindowsPath
dedup_split_win(p) == split_path(p)

\* str(v or "")
StrOrEmpty(v) == IF Truthy(v) THEN v ELSE EMPTY

\* some other Path row already owns path string p (UNIQUE(paths.path))
PathTakenByOther(d, pid, p) ==
  \E q \in DOMAIN d.paths : q # pid /\ d.paths[q].path = p

\* records of the move_apply JSONL the dedup mover returns
DedupRecords ==
  { rec \in Records : rec.path_id # IdGhost \/ rec.dst = DstZ } \ {MoveOk(IdB, DstZ)}
DedupArtifacts(n) == UNION { [1..k -> DedupRecords] : k \in 0..n }

\* one iteration of `for rec in iter_jsonl_file(move_apply_file)`:
\* raised = an sqlite3.IntegrityError leaves the loop
DedupRowResult(d, rec, rid, now) ==
  LET pid == StrOrEmpty(rec.path_id)
      src_win == canonicalize_windows_path(StrOrEmpty(rec.src))
      dst_win_val == canonicalize_windows_path(StrOrEmpty(rec.dst))
      err_text == IF rec.ok THEN NULLSTR
                  ELSE IF rec.error = NULLSTR THEN "" ELSE rec.error
      sw == dedup_split_win(dst_win_val)
      ev(okv, err) == [run_id |-> rid, ts |-> now, kind |-> "dedup_move",
                       src_path_id |-> pid, dst_path_id |-> NULL,
                       detail_json |-> [src |-> src_win, dst |-> dst_win_val],
                       ok |-> okv, error |-> err]
      same == [db |-> d, raised |-> FALSE, moved |-> 0, errors |-> 0]
  IN IF rec.op # "move" THEN same
     ELSE IF rec.ok /\ pid # EMPTY /\ dst_win_val # EMPTY
     THEN LET upd == IF pid \in DOMAIN d.paths
                     THEN [d EXCEPT !.paths[pid] =
                            [@ EXCEPT !.path = dst_win_val, !.drive = sw.drive,
                                      !.dir = sw.dir, !.name = sw.name,
                                      !.ext = sw.ext, !.updated_at = now]]
                     ELSE d
              e == ev(1, NULLSTR)
          IN IF (pid \in DOMAIN d.paths /\ PathTakenByOther(d, pid, dst_win_val))
                \/ (fk /\ ~EventFkOk(upd, e))
             THEN [same EXCEPT !.raised = TRUE]
             ELSE [db |-> [upd EXCEPT !.events = Append(@, e)], raised |-> FALSE,
                   moved |-> 1, errors |-> 0]
     ELSE LET e == ev(0, IF err_text \in {NULLSTR, ""} THEN "move_failed" ELSE err_text)
              nerr == IF src_win # EMPTY \/ dst_win_val # EMPTY \/ pid # EMPTY
                      THEN 1 ELSE 0
          IN IF pid = EMPTY THEN [same EXCEPT !.errors = nerr]
             ELSE IF fk /\ ~EventFkOk(d, e) THEN [same EXCEPT !.raised = TRUE]
             ELSE [db |-> [d EXCEPT !.events = Append(@, e)], raised |-> FALSE,
                   moved |-> 0, errors |-> nerr]

\* the mover returned its result file: open the transaction, insert the Run row
DedupStart(art) ==
  /\ pc = "idle"
  /\ nread + Cost(art) <= MaxWork
  /\ nread' = nread + Cost(art)
  /\ applied' = art
  /\ run_id' = nruns + 1
  /\ nruns' = nruns + 1
  /\ snapshot' = db
  /\ db' = OpenRun(db, nruns + 1, "dedup", clock)
  /\ idx' = 1
  /\ clock' = clock + 1
  /\ pc' = "dedup_loop"
  /\ UNCHANGED <<scan, plan, fk, batches, move_rows, rows_events, counters>>

DedupRow ==
  /\ pc = "dedup_loop"
  /\ idx <= Len(applied)
  /\ LET r == DedupRowResult(db, applied[idx], run_id, clock)
     IN IF r.raised
        THEN /\ Finish("dedup", "raised", Rollback(db, snapshot))
             /\ UNCHANGED <<scan, plan, fk, nruns, nread>>
        ELSE /\ db' = r.db
             /\ counters' = [counters EXCEPT !.files_moved = @ + r.moved,
                                             !.errors = @ + r.errors]
             /\ idx' = idx + 1
             /\ UNCHANGED <<scan, plan, fk, snapshot, nruns, pc, applied, move_rows,
                            rows_events, run_id, nread, batches>>
  /\ clock' = clock + 1

\* UPDATE runs SET finished_at; commit
DedupCommit ==
  /\ pc = "dedup_loop"
  /\ idx > Len(applied)
  /\ Finish("dedup", "committed", CloseRun(db, run_id, clock))
  /\ clock' = clock + 1
  /\ UNCHANGED <<scan, plan, fk, nruns, nread>>

\* `except Exception: con.rollback(); raise` for any other error in the loop
DedupRaise ==
  /\ pc = "dedup_loop"
  /\ idx <= Len(applied)
  /\ Finish("dedup", "raised", Rollback(db, snapshot))
  /\ UNCHANGED <<scan, plan, fk, clock, nruns, nread>>

\* --------------------------------------------- ingest_inventory_jsonl.main
\* inventory JSONL records
InvRecords ==
  { [path |-> SrcA, size |-> 101],
    [path |-> DstZ, size |-> 300],
    [path |-> NULL, size |-> 0] }
Inventories(n) == UNION { [1..k -> InvRecords] : k \in 0..n }

\* one iteration of `for rec in iter_jsonl(args.jsonl)`: upsert the Path row
\* on path_id, upsert the Observation on (run_id, path_id)
IngestRowResult(d, rec, rid, ts) ==
  LET same == [db |-> d, raised |-> FALSE, upserted |-> 0]
      Upserted(p, pid, row) ==
        IF PathTakenByOther(d, pid, p) THEN [same EXCEPT !.raised = TRUE]
        ELSE [db |-> [d EXCEPT
                !.paths = Upsert(@, pid,
                   IF pid \in DOMAIN d.paths
                   THEN [row EXCEPT !.created_at = d.paths[pid].created_at]
                   ELSE row),
                !.observations = Upsert(@, <<rid, pid>>,
                   [size_bytes |-> rec.size, mtime_utc |-> 0])],
              raised |-> FALSE, upserted |-> 1]
  IN IF ~Truthy(rec.path) THEN same
     ELSE Upserted(rec.path, path_id_for(rec.path), InventoryPathRow(rec.path, ts))

IngestStart(art) ==
  /\ pc = "idle"
  /\ nread + Cost(art) <= MaxWork
  /\ nread' = nread + Cost(art)
  /\ applied' = art
  /\ run_id' = nruns + 1
  /\ nruns' = nruns + 1
  /\ snapshot' = db
  /\ db' = OpenRun(db, nruns + 1, "inventory", clock)
  /\ idx' = 1
  /\ clock' = clock + 1
  /\ pc' = "ingest_loop"
  /\ UNCHANGED <<scan, plan, fk, batches, move_rows, rows_events, counters>>

IngestRow ==
  /\ pc = "ingest_loop"
  /\ idx <= Len(applied)
  /\ LET r == IngestRowResult(db, applied[idx], run_id, clock)
     IN IF r.raised
        THEN /\ Finish("inventory", "raised", Rollback(db, snapshot))
             /\ UNCHANGED <<scan, plan, fk, nruns, nread>>
        ELSE /\ db' = r.db
             /\ counters' = [counters EXCEPT !.lines = @ + 1,
                                             !.paths_upserted = @ + r.upserted,
                                             !.obs_upserted = @ + r.upserted]
             /\ idx' = idx + 1
             /\ UNCHANGED <<scan, plan, fk, snapshot, nruns, pc, applied, move_rows,
                            rows_events, run_id, nread, batches>>
  /\ clock' = clock + 1

IngestCommit ==
  /\ pc = "ingest_loop"
  /\ idx > Len(applied)
  /\ Finish("inventory", "committed", CloseRun(db, run_id, clock))
  /\ clock' = clock + 1
  /\ UNCHANGED <<scan, plan, fk, nruns, nread>>

IngestRaise ==
  /\ pc = "ingest_loop"
  /\ idx <= Len(applied)
  /\ Finish("inventory", "raised", Rollback(db, snapshot))
  /\ UNCHANGED <<scan, plan, fk, clock, nruns, nread>>

Next ==
  \/ \E art \in Artifacts(MaxWork) : ApplyStart(art)
  \/ ApplyRow
  \/ ApplyCommit
  \/ ApplyRaise
  \/ \E art \in DedupArtifacts(MaxWork) : DedupStart(art)
  \/ DedupRow
  \/ DedupCommit
  \/ DedupRaise
  \/ \E art \in Inventories(MaxWork) : IngestStart(art)
  \/ IngestRow
  \/ IngestCommit
  \/ IngestRaise

Spec == Init /\ [][Next]_vars

\* ------------------------------------------------- single-outcome batches
\* seed stores for the merge: every combination of which of the two paths has
\* an Observation, a PathMetadata, a FilePath and a PathTag row, and every
\* pair of values of one dependent table at a time
SeedPresence ==
  { SeedDb(o, [i \in m |-> CHOOSE r \in MdRows : r.source = "llm"],
           [k \in {<<"f1", i>> : i \in f} |-> CHOOSE r \in FpRows : r.is_current = 1],
           [k \in {<<i, 1, "tablacus">> : i \in t} |-> 1]) :
      o \in AllObs, m \in SUBSET SeedIds, f \in SUBSET SeedIds, t \in SUBSET SeedIds }
SeedValues ==
  { SeedDb(SeedIds, m, EmptyTable, EmptyTable) : m \in AllMd }
    \cup { SeedDb(SeedIds, EmptyTable, f, EmptyTable) : f \in AllFp }
    \cup { SeedDb(SeedIds, EmptyTable, EmptyTable, t) : t \in AllTags }

\* seed stores with a second, later inventory run: Observations of either path
\* at either run, or FilePath links last seen at either run
LaterRun == 9
FpRowsTwoRuns ==
  FpRows \cup { [is_current |-> 0, first_seen_run_id |-> LaterRun,
                 last_seen_run_id |-> LaterRun] }
TwoRunsDb(obs, fp) ==
  [SeedDb({}, EmptyTable, fp, EmptyTable) EXCEPT
     !.runs = Upsert(@, LaterRun, [kind |-> "inventory", started_at |-> 1,
                                   finished_at |-> 2]),
     !.observations = [k \in obs |->
                         [size_bytes |-> (IF k[2] = IdA THEN 100 ELSE 200) + k[1],
                          mtime_utc |-> 0]]]
SeedTwoRuns ==
  { TwoRunsDb(o, EmptyTable) : o \in SUBSET ({1, LaterRun} \X SeedIds) }
    \cup { TwoRunsDb({}, f) : f \in PartialFns({<<"f1", i>> : i \in SeedIds}, FpRowsTwoRuns) }

\* one unit of input left: a batch of at most one mover outcome on any seed
InitMerge == InitWith(SeedPresence \cup SeedValues \cup SeedTwoRuns, MaxWork - 1)

NextMerge ==
  \/ \E art \in Artifacts(1) : ApplyStart(art)
  \/ ApplyRow
  \/ ApplyCommit
  \/ ApplyRaise

SpecMerge == InitMerge /\ [][NextMerge]_vars

\* ------------------------------------------------------ path_id_for, thrice
store_vars == <<db, fk, snapshot, clock, nruns, pc, applied, move_rows, idx,
                rows_events, counters, run_id, nread, batches>>

\* path strings differing in case and separators, and some that differ beyond
PathStrings ==
  { SrcA, SrcB, DstB, DstZ,
    <<"c", ":", BS, "B">>,
    <<"d", ":", FS, "D", FS, "a">>,
    <<"C", ":", "b">> }

\* two path strings are handed to each implementation of path_id_for
InitPathId ==
  /\ StoreInit({SeedRich}, MaxWork)
  /\ scan \in [p1 : PathStrings, p2 : PathStrings]
  /\ plan = EmptyTable

IngestPathId ==
  /\ "ingest" \notin DOMAIN plan
  /\ plan' = Upsert(plan, "ingest", <<path_id_for(scan.p1), path_id_for(scan.p2)>>)
  /\ UNCHANGED <<scan, store_vars>>

BackfillPathId ==
  /\ "backfill" \notin DOMAIN plan
  /\ plan' = Upsert(plan, "backfill",
                    <<backfill_path_id_for(scan.p1), backfill_path_id_for(scan.p2)>>)
  /\ UNCHANGED <<scan, store_vars>>

RelocatePathId ==
  /\ "relocate" \notin DOMAIN plan
  /\ plan' = Upsert(plan, "relocate",
                    <<relocate_path_id_for(scan.p1), relocate_path_id_for(scan.p2)>>)
  /\ UNCHANGED <<scan, store_vars>>

NextPathId == IngestPathId \/ BackfillPathId \/ RelocatePathId

SpecPathId == InitPathId /\ [][NextPathId]_vars

\* ----------------------------------------------- backfill_moved_files.main
\* files scanned per planner run
MaxScan == 2

\* backfill_moved_files.split_win: (drive, dir, name, ext) through PureWindowsPath
backfill_split_win(p) == split_path(p)

\* a second file named "a" on drive D:, and SrcA as seen on drive C:
SrcA2 == <<"D", ":", BS, "a">>
CdA == <<"C", ":", BS, "d", BS, "a">>

\* the ScannedFile scan_files builds for a file at win_path
ScannedFile(win_path, size, corrupt) ==
  [win_path |-> win_path, name |-> backfill_split_win(win_path).name,
   size |-> size, corrupt_candidate |-> corrupt,
   corrupt_reason |-> IF corrupt THEN "size_zero" ELSE NULLSTR]

\* what a scan can find: a tracked file, SrcA on another drive with its
\* recorded size and with another size, a new file, and an empty (corrupt) file
BackfillScanned ==
  { ScannedFile(SrcA, 100, FALSE), ScannedFile(CdA, 100, FALSE),
    ScannedFile(CdA, 200, FALSE), ScannedFile(DstZ, 100, FALSE),
    ScannedFile(CdA, 0, TRUE) }

\* the store an inventory of the files `tracked` left, with an Observation
\* (size 100) for those in `observed`
PlannerDb(tracked, observed) ==
  [paths |-> [i \in {path_id_for(p) : p \in tracked} |->
                InventoryPathRow(CHOOSE p \in tracked : path_id_for(p) = i, 1)],
   observations |-> [k \in {<<1, path_id_for(p)>> : p \in observed} |->
                       [size_bytes |-> 100, mtime_utc |-> 0]],
   path_metadata |-> EmptyTable,
   file_paths |-> EmptyTable,
   path_tags |-> EmptyTable,
   events |-> <<>>,
   runs |-> [r \in {1} |-> [kind |-> "inventory", started_at |-> 0, finished_at |-> 1]]]

BackfillStores ==
  UNION { { PlannerDb(t, o) : o \in SUBSET t } : t \in SUBSET {SrcA, SrcA2, SrcB} }

\* --drive-map-json after build_drive_map: old drive -> new drive
DriveMaps == { EmptyTable, [k \in {<<"D", ":">>} |-> <<"C", ":">>] }

ScanLists(files, n) == UNION { [1..k -> files] : k \in 0..n }

\* SELECT path_id, path FROM paths WHERE path = ?
PathRowsAt(d, p) == {q \in DOMAIN d.paths : d.paths[q].path = p}

\* the drive-map lookup: the Path row the file had under its old drive letter
mapped_old_candidates(d, drive_map, sf) ==
  LET inv_map == [v \in {drive_map[k] : k \in DOMAIN drive_map} |->
                    CHOOSE k \in DOMAIN drive_map : drive_map[k] = v]
      cur_drive == <<UpperChar(sf.win_path[1]), sf.win_path[2]>>
      Candidates(old_path) ==
        IF PathRowsAt(d, old_path) = {} THEN [conflict |-> <<>>, mapped |-> <<>>]
        ELSE LET old_id == CHOOSE q \in PathRowsAt(d, old_path) : TRUE
             IN IF PathRowsAt(d, sf.win_path) # {}
                   /\ (CHOOSE q \in PathRowsAt(d, sf.win_path) : TRUE) # old_id
                THEN [conflict |-> <<[path |-> sf.win_path, path_id |-> old_id,
                                      status |-> "skipped", reason |-> "conflict_skip"]>>,
                      mapped |-> <<>>]
                ELSE [conflict |-> <<>>,
                      mapped |-> <<[path_id |-> old_id, old_path |-> old_path,
                                    new_path |-> sf.win_path]>>]
  IN IF DOMAIN drive_map # {} /\ Len(sf.win_path) >= 3 /\ sf.win_path[2] = ":"
        /\ cur_drive \in DOMAIN inv_map
     THEN Candidates(inv_map[cur_drive] \o SubSeq(sf.win_path, 3, Len(sf.win_path)))
     ELSE [conflict |-> <<>>, mapped |-> <<>>]

\* (mutant) rename candidates are matched on the name alone
rename_rows_NameOnly(d, sf) ==
  {q \in DOMAIN d.paths : d.paths[q].name = sf.name}

\* SELECT p.path_id, p.path FROM paths p JOIN observations o ...
\* WHERE p.name = ? AND o.size_bytes = ? GROUP BY p.path_id, p.path
rename_rows(d, sf) ==
  {q \in DOMAIN d.paths :
     /\ d.paths[q].name = sf.name
     /\ \E k \in DOMAIN d.observations :
          k[2] = q /\ d.observations[k].size_bytes = sf.size}

\* a row of rows_for_apply
BackfillApplyRow(op, pid, sf, old_path) ==
  [op |-> op, path_id |-> pid, path |-> sf.win_path, old_path |-> old_path,
   name |-> sf.name, size_bytes |-> sf.size]

\* a row of rows_for_plan
BackfillPlanRow(sf, pid, status, reason) ==
  [path |-> sf.win_path, path_id |-> pid, status |-> status, reason |-> reason]

\* (mutant) a corrupt candidate is planned like a new file
CorruptGate_Inserts(sf) ==
  [plan |-> <<BackfillPlanRow(sf, backfill_path_id_for(sf.win_path), "error",
                              "corrupt_candidate:size_zero")>>,
   apply |-> <<BackfillApplyRow("insert_or_upsert", backfill_path_id_for(sf.win_path),
                                sf, NULL)>>]

\* `if sf.corrupt_candidate`: an error plan row, nothing to apply
CorruptGate(sf) ==
  [plan |-> <<BackfillPlanRow(sf, backfill_path_id_for(sf.win_path), "error",
                              "corrupt_candidate:size_zero")>>,
   apply |-> <<>>]

\* `skipped_existing += 1`: the file is tracked and needs nothing
SkippedExisting(sf, pid) == [plan |-> <<>>, apply |-> <<>>]

\* one iteration of `for sf in scanned`: the rows appended to rows_for_plan
\* and to rows_for_apply
BackfillFile(d, include_observations, drive_map, sf) ==
  LET Existing(pid) ==
        IF include_observations /\ ~\E k \in DOMAIN d.observations : k[2] = pid
        THEN [plan |-> <<BackfillPlanRow(sf, pid, "planned", "missing_observation")>>,
              apply |-> <<BackfillApplyRow("obs_only", pid, sf, NULL)>>]
        ELSE SkippedExisting(sf, pid)
      Renamed(rows) ==
        IF Cardinality(rows) = 1
        THEN LET old == CHOOSE q \in rows : TRUE
             IN [plan |-> <<BackfillPlanRow(sf, old, "planned", "rename_detected")>>,
                 apply |-> <<BackfillApplyRow("rename_update", old, sf, d.paths[old].path)>>]
        ELSE IF Cardinality(rows) > 1
        THEN [plan |-> <<BackfillPlanRow(sf, backfill_path_id_for(sf.win_path),
                                         "skipped", "rename_ambiguous")>>,
              apply |-> <<>>]
        ELSE [plan |-> <<BackfillPlanRow(sf, backfill_path_id_for(sf.win_path),
                                         "planned", "missing_path")>>,
              apply |-> <<BackfillApplyRow("insert_or_upsert",
                                           backfill_path_id_for(sf.win_path), sf, NULL)>>]
      Missing(m) ==
        IF m.mapped # <<>>
        THEN [plan |-> m.conflict \o
                       <<BackfillPlanRow(sf, m.mapped[1].path_id, "remapped", "drive_map")>>,
              apply |-> <<BackfillApplyRow("remap_update", m.mapped[1].path_id, sf,
                                           m.mapped[1].old_path)>>]
        ELSE [plan |-> m.conflict \o Renamed(rename_rows(d, sf)).plan,
              apply |-> Renamed(rename_rows(d, sf)).apply]
  IN IF sf.corrupt_candidate THEN CorruptGate(sf)
     ELSE IF PathRowsAt(d, sf.win_path) # {}
     THEN Existing(CHOOSE q \in PathRowsAt(d, sf.win_path) : TRUE)
     ELSE Missing(mapped_old_candidates(d, drive_map, sf))

\* a backfill run: the scan result and the options, nothing planned yet
InitBackfill ==
  /\ StoreInit(BackfillStores, MaxWork)
  /\ scan \in [program : {"backfill"},
               scanned : ScanLists(BackfillScanned, MaxScan),
               include_observations : BOOLEAN,
               drive_map : DriveMaps]
  /\ plan = [per_file |-> <<>>, rows_for_plan |-> <<>>, rows_for_apply |-> <<>>,
             written |-> FALSE]

\* the planner loop, one scanned file per step
BackfillPlanFile ==
  /\ scan.program = "backfill"
  /\ Len(plan.per_file) < Len(scan.scanned)
  /\ LET Appended(r) ==
           [plan EXCEPT !.per_file = Append(@, r),
                        !.rows_for_plan = @ \o r.plan,
                        !.rows_for_apply = @ \o r.apply]
     IN plan' = Appended(BackfillFile(db, scan.include_observations, scan.drive_map,
                                      scan.scanned[Len(plan.per_file) + 1]))
  /\ UNCHANGED <<scan, store_vars>>

\* after the loop: the plan file is written
BackfillWritePlan ==
  /\ scan.program = "backfill"
  /\ Len(plan.per_file) = Len(scan.scanned)
  /\ ~plan.written
  /\ plan' = [plan EXCEPT !.written = TRUE]
  /\ UNCHANGED <<scan, store_vars>>

\* ----------------------------------------------------- path_placement_rules
\* JSON values of a metadata dict: booleans, strings, integers and null
JBool(b) == [t |-> "bool", b |-> b, s |-> EMPTY, n |-> 0]
JStr(s) == [t |-> "str", b |-> FALSE, s |-> s, n |-> 0]
JInt(n) == [t |-> "int", b |-> FALSE, s |-> EMPTY, n |-> n]
JNull == [t |-> "null", b |-> FALSE, s |-> EMPTY, n |-> 0]

\* Python truthiness of a JSON value
JTruthy(v) ==
  CASE v.t = "bool" -> v.b
    [] v.t = "str" -> v.s # EMPTY
    [] v.t = "int" -> v.n # 0
    [] OTHER -> FALSE

\* str(v) for the values a metadata dict holds
PyStr(v) ==
  CASE v.t = "str" -> v.s
    [] v.t = "bool" -> IF v.b THEN <<"T", "r", "u", "e">> ELSE <<"F", "a", "l", "s", "e">>
    [] v.t = "int" -> IF v.n = 0 THEN <<"0">> ELSE <<"1">>
    [] OTHER -> <<"N", "o", "n", "e">>

\* md.get(k)
MdGet(md, k) == IF k \in DOMAIN md THEN md[k] ELSE JNull

DB_CONTRACT_REQUIRED == {"program_title", "air_date", "needs_review"}

\* path_placement_rules.has_required_db_contract
has_required_db_contract(md) ==
  /\ DB_CONTRACT_REQUIRED \subseteq DOMAIN md
  /\ md["needs_review"].t = "bool"

\* s.strip() / s.rstrip(chars): s without its leading / trailing chars of cs
RECURSIVE RStrip(_, _)
RStrip(s, cs) ==
  IF s # EMPTY /\ s[Len(s)] \in cs THEN RStrip(SubSeq(s, 1, Len(s) - 1), cs) ELSE s
RECURSIVE LStrip(_, _)
LStrip(s, cs) == IF s # EMPTY /\ s[1] \in cs THEN LStrip(Tail(s), cs) ELSE s

Digits == {"0", "1", "2", "3", "4", "5", "6", "7", "8", "9"}
IsDigits(s) == s # EMPTY /\ \A i \in 1..Len(s) : s[i] \in Digits

\* path_placement_rules.extract_year_month_from_air_date: (y, m, err)
extract_year_month_from_air_date(air_date) ==
  LET Checked(y, m) ==
        IF Len(y) = 4 /\ IsDigits(y) /\ Len(m) = 2 /\ IsDigits(m)
        THEN [y |-> y, m |-> m, err |-> NULLSTR]
        ELSE [y |-> NULL, m |-> NULL, err |-> "invalid_air_date"]
      SplitRest(y, rest) ==
        IF FirstIndexOf(rest, "-") = 0
        THEN [y |-> NULL, m |-> NULL, err |-> "invalid_air_date"]
        ELSE Checked(y, SubSeq(rest, 1, FirstIndexOf(rest, "-") - 1))
      Split(str) ==
        IF str = EMPTY THEN [y |-> NULL, m |-> NULL, err |-> "missing_air_date"]
        ELSE IF FirstIndexOf(str, "-") = 0
        THEN [y |-> NULL, m |-> NULL, err |-> "invalid_air_date"]
        ELSE SplitRest(SubSeq(str, 1, FirstIndexOf(str, "-") - 1),
                       SubSeq(str, FirstIndexOf(str, "-") + 1, Len(str)))
  IN Split(IF JTruthy(air_date)
           THEN RStrip(LStrip(PyStr(air_date), {" "}), {" "}) ELSE EMPTY)

\* characters FORB replaces in a directory name
FORB == {"<", ">", ":", "\"", FS, BS, "|", "?", "*"}

\* path_placement_rules.safe_dir_name, for names shorter than maxlen and
\* without control characters: strip, replace forbidden characters, drop
\* trailing dots and blanks, "UNKNOWN" for an empty name
safe_dir_name(name) ==
  LET Named(str) == IF str = EMPTY THEN <<"U", "N", "K", "N", "O", "W", "N">> ELSE str
      \* "_" stands for the full-width low line U+FF3F
      Forbidden(str) == [i \in 1..Len(str) |-> IF str[i] \in FORB THEN "_" ELSE str[i]]
  IN Named(RStrip(Forbidden(RStrip(LStrip(name, {" "}), {" "})), {".", " "}))

\* path_placement_rules.build_expected_dest_path: (dst, err)
build_expected_dest_path(dest_root_win, src_path_win, md) ==
  LET Dest(ym, filename) ==
        IF ym.err # NULLSTR THEN [dst |-> NULL, err |-> ym.err]
        ELSE IF filename = EMPTY THEN [dst |-> NULL, err |-> "missing_filename"]
        ELSE [dst |-> RStrip(dest_root_win, {BS}) \o <<BS>>
                        \o safe_dir_name(PyStr(MdGet(md, "program_title")))
                        \o <<BS>> \o ym.y \o <<BS>> \o ym.m \o <<BS>> \o filename,
              err |-> NULLSTR]
  IN IF ~has_required_db_contract(md)
     THEN [dst |-> NULL, err |-> "invalid_metadata_contract"]
     ELSE IF ~JTruthy(MdGet(md, "program_title"))
     THEN [dst |-> NULL, err |-> "missing_program_title"]
     ELSE Dest(extract_year_month_from_air_date(MdGet(md, "air_date")),
               PureWindowsPath(src_path_win).name)

\* ---------------------------------------------- relocate_existing_files.main
\* pathscan_common.canonicalize_windows_path: /mnt/x/... becomes X:\..., then
\* backslashes and an upper-case drive letter
pathscan_canonicalize_windows_path(raw) ==
  LET Cased(p) ==
        IF Len(p) >= 2 /\ p[2] = ":" THEN <<UpperChar(p[1])>> \o Tail(p) ELSE p
  IN IF Len(raw) > 6 /\ SubSeq(raw, 1, 5) = <<FS, "m", "n", "t", FS>> /\ raw[7] = FS
     THEN Cased(<<UpperChar(raw[6]), ":", BS>>
                  \o Replace(SubSeq(raw, 8, Len(raw)), FS, BS))
     ELSE Cased(Replace(raw, FS, BS))

\* --dest-root, and SrcA where its metadata places it under that root
DestRoot == <<"D", ":", BS, "d">>
GoodDate == <<"2", "0", "2", "4", "-", "0", "1", "-", "0", "5">>
Placed == <<"D", ":", BS, "d", BS, "s", BS, "2", "0", "2", "4", BS, "0", "1", BS, "a">>

\* metadata dicts: each contract key absent or holding one of its values
MdValues(k) ==
  CASE k = "program_title" -> {JStr(<<"s">>), JStr(EMPTY)}
    [] k = "air_date" -> {JStr(GoodDate), JStr(<<"2", "0", "2", "4">>)}
    [] OTHER -> {JBool(FALSE), JBool(TRUE), JStr(<<"f", "a", "l", "s", "e">>), JInt(0)}
MdDicts ==
  UNION { { f \in [K -> UNION {MdValues(k) : k \in K}] : \A k \in K : f[k] \in MdValues(k) } :
          K \in SUBSET DB_CONTRACT_REQUIRED }

\* path_metadata.data_json after json.loads: a dict, or something else (a list)
DataJsons == { [dict |-> TRUE, items |-> md] : md \in MdDicts }
               \cup { [dict |-> FALSE, items |-> EmptyTable] }

\* the store tracking SrcA and Placed, both with the metadata rows `md_rows`
RelocateDb(md_rows) ==
  [PlannerDb({SrcA, Placed}, {SrcA, Placed}) EXCEPT !.path_metadata = md_rows]
RelocateStores ==
  { RelocateDb(EmptyTable) }
    \cup { RelocateDb([i \in {path_id_for(SrcA), path_id_for(Placed)} |->
                         [source |-> "llm", data_json |-> dj, updated_at |-> 1]]) :
           dj \in DataJsons }

\* what the relocate scan can find: a misplaced tracked file, a tracked file
\* in its place, an untracked file, and an empty (corrupt) tracked file
RelocateScanned ==
  { ScannedFile(SrcA, 100, FALSE), ScannedFile(Placed, 100, FALSE),
    ScannedFile(DstZ, 100, FALSE), ScannedFile(SrcA, 0, TRUE) }

\* relocate_existing_files.latest_metadata_for_path: the dict, or None
NoMd == [dict |-> FALSE, items |-> EmptyTable]
latest_metadata_for_path(d, path_id) ==
  IF path_id \in DOMAIN d.path_metadata /\ d.path_metadata[path_id].data_json.dict
  THEN d.path_metadata[path_id].data_json
  ELSE NoMd

\* a row of rows_for_plan
RelocatePlanRow(sf, pid, dst, status, reason) ==
  [src |-> sf.win_path, path_id |-> pid, dst |-> dst, status |-> status,
   reason |-> reason]

\* `if sf.corrupt_candidate`: an error plan row, nothing to move or register
RelocateCorruptGate(sf) ==
  [plan |-> <<RelocatePlanRow(sf, NULL, NULL, "error", "corrupt_candidate:size_zero")>>,
   move |-> <<>>, autoreg |-> <<>>]

\* one iteration of `for sf in scanned`: the rows appended to rows_for_plan,
\* rows_for_move and rows_for_autoreg
RelocateFile(d, apply, allow_needs_review, dest_root_win, sf) ==
  LET Skip(pid, reason) ==
        [plan |-> <<RelocatePlanRow(sf, pid, NULL, "skipped", reason)>>,
         move |-> <<>>, autoreg |-> <<>>]
      Placing(pid, dst) ==
        IF sf.win_path = dst
        THEN [plan |-> <<RelocatePlanRow(sf, pid, dst, "skipped", "already_correct")>>,
              move |-> <<>>, autoreg |-> <<>>]
        ELSE [plan |-> <<RelocatePlanRow(sf, pid, dst, "planned", "recompute_destination")>>,
              move |-> <<[path_id |-> pid, src |-> sf.win_path, dst |-> dst]>>,
              autoreg |-> <<>>]
      Built(pid, b) ==
        IF ~Truthy(b.dst) \/ b.err # NULLSTR
        THEN Skip(pid, IF b.err # NULLSTR THEN b.err ELSE "build_expected_dest_failed")
        ELSE Placing(pid, pathscan_canonicalize_windows_path(b.dst))
      WithMd(pid, md) ==
        IF ~md.dict THEN Skip(pid, "missing_metadata")
        ELSE IF ~has_required_db_contract(md.items)
        THEN Skip(pid, "invalid_metadata_contract")
        ELSE IF JTruthy(MdGet(md.items, "needs_review")) /\ ~allow_needs_review
        THEN Skip(pid, "needs_review")
        ELSE Built(pid, build_expected_dest_path(dest_root_win, sf.win_path, md.items))
      Registered(pid) == WithMd(pid, latest_metadata_for_path(d, pid))
  IN IF sf.corrupt_candidate THEN RelocateCorruptGate(sf)
     ELSE IF PathRowsAt(d, sf.win_path) = {}
     THEN [plan |-> <<RelocatePlanRow(sf, NULL, NULL, "skipped", "unregistered_path")>>,
           move |-> <<>>,
           autoreg |-> IF apply
                       THEN <<[path_id |-> relocate_path_id_for(sf.win_path),
                               path |-> sf.win_path, size_bytes |-> sf.size]>>
                       ELSE <<>>]
     ELSE Registered(CHOOSE q \in PathRowsAt(d, sf.win_path) : TRUE)

\* a relocate run: the scan result and the options, nothing planned yet
InitRelocate ==
  /\ StoreInit(RelocateStores, MaxWork)
  /\ scan \in [program : {"relocate"},
               scanned : ScanLists(RelocateScanned, MaxScan),
               apply : BOOLEAN,
               allow_needs_review : BOOLEAN]
  /\ plan = [per_file |-> <<>>, rows_for_plan |-> <<>>, rows_for_move |-> <<>>,
             rows_for_autoreg |-> <<>>, written |-> FALSE]

\* the planner loop, one scanned file per step
RelocatePlanFile ==
  /\ scan.program = "relocate"
  /\ Len(plan.per_file) < Len(scan.scanned)
  /\ LET Appended(r) ==
           [plan EXCEPT !.per_file = Append(@, r),
                        !.rows_for_plan = @ \o r.plan,
                        !.rows_for_move = @ \o r.move,
                        !.rows_for_autoreg = @ \o r.autoreg]
     IN plan' = Appended(RelocateFile(db, scan.apply, scan.allow_needs_review, DestRoot,
                                      scan.scanned[Len(plan.per_file) + 1]))
  /\ UNCHANGED <<scan, store_vars>>

\* after the loop: the plan file is written
RelocateWritePlan ==
  /\ scan.program = "relocate"
  /\ Len(plan.per_file) = Len(scan.scanned)
  /\ ~plan.written
  /\ plan' = [plan EXCEPT !.written = TRUE]
  /\ UNCHANGED <<scan, store_vars>>

\* ------------------------------------------- make_move_plan_from_inventory.main
\* make_move_plan_from_inventory.latest_llm_metadata: json.loads of the row
\* with source 'llm', or None
latest_llm_metadata(d, path_id) ==
  IF path_id \in DOMAIN d.path_metadata /\ d.path_metadata[path_id].source = "llm"
  THEN [found |-> TRUE, md |-> d.path_metadata[path_id].data_json]
  ELSE [found |-> FALSE, md |-> NoMd]

\* make_move_plan_from_inventory.safe_dir_name (its own copy), for names
\* shorter than maxlen and without control characters
move_plan_safe_dir_name(name) ==
  LET Named(str) == IF str = EMPTY THEN <<"U", "N", "K", "N", "O", "W", "N">> ELSE str
      \* "_" stands for the full-width low line U+FF3F
      Forbidden(str) == [i \in 1..Len(str) |-> IF str[i] \in FORB THEN "_" ELSE str[i]]
  IN Named(RStrip(Forbidden(RStrip(LStrip(name, {" "}), {" "})), {".", " "}))

\* s.startswith(prefix)
StartsWith(str, prefix) ==
  Len(str) >= Len(prefix) /\ SubSeq(str, 1, Len(prefix)) = prefix

\* `y, m, _ = air.split("-", 2)`: the first two pieces, or a ValueError
SplitAir(air) ==
  LET Second(y, rest) ==
        IF FirstIndexOf(rest, "-") = 0 THEN [ok |-> FALSE, y |-> EMPTY, m |-> EMPTY]
        ELSE [ok |-> TRUE, y |-> y, m |-> SubSeq(rest, 1, FirstIndexOf(rest, "-") - 1)]
  IN IF FirstIndexOf(air, "-") = 0 THEN [ok |-> FALSE, y |-> EMPTY, m |-> EMPTY]
     ELSE Second(SubSeq(air, 1, FirstIndexOf(air, "-") - 1),
                 SubSeq(air, FirstIndexOf(air, "-") + 1, Len(air)))

\* one line of the inventory: the counter it bumps and the plan line written;
\* an empty dict counts as no metadata (`if not md`), and the run ends with
\* "raised" when the metadata is not a dict (md.get fails)
MovePlanLine(d, source_root, dest_root, allow_needs_review, src) ==
  LET Skip(counter) == [outcome |-> counter, plan |-> <<>>]
      Planned(pid, md, sp) ==
        IF ~sp.ok THEN Skip("skipped_missing_fields")
        ELSE [outcome |-> "planned",
              plan |-> <<[path_id |-> pid, src |-> src,
                          dst |-> RStrip(dest_root, {BS}) \o <<BS>>
                                    \o move_plan_safe_dir_name(PyStr(MdGet(md, "program_title")))
                                    \o <<BS>> \o sp.y \o <<BS>> \o sp.m \o <<BS>>
                                    \o PureWindowsPath(src).name]>>]
      WithMd(pid, md) ==
        IF JTruthy(MdGet(md, "needs_review")) /\ ~allow_needs_review
        THEN Skip("skipped_needs_review")
        ELSE IF ~JTruthy(MdGet(md, "air_date")) \/ ~JTruthy(MdGet(md, "program_title"))
        THEN Skip("skipped_missing_fields")
        ELSE Planned(pid, md, SplitAir(PyStr(MdGet(md, "air_date"))))
      Found(pid, r) ==
        IF ~r.found \/ (r.md.dict /\ DOMAIN r.md.items = {}) THEN Skip("skipped_no_md")
        ELSE IF ~r.md.dict THEN Skip("raised")
        ELSE WithMd(pid, r.md.items)
      Tracked(pid) == Found(pid, latest_llm_metadata(d, pid))
  IN IF ~(src = RStrip(source_root, {BS})
          \/ StartsWith(src, RStrip(source_root, {BS}) \o <<BS>>))
     THEN Skip("skipped_outside")
     ELSE IF PathRowsAt(d, src) = {} THEN Skip("skipped_no_path")
     ELSE Tracked(CHOOSE q \in PathRowsAt(d, src) : TRUE)

\* a move-plan run over the inventory lines of the scanned files
InitMovePlan ==
  /\ StoreInit(RelocateStores, MaxWork)
  /\ scan \in [program : {"make_move_plan"},
               scanned : ScanLists({ScannedFile(SrcA, 100, FALSE),
                                    ScannedFile(DstZ, 100, FALSE)}, MaxScan),
               allow_needs_review : BOOLEAN]
  /\ plan = [per_file |-> <<>>, rows_for_plan |-> <<>>, written |-> FALSE,
             raised |-> FALSE]

\* the loop over the inventory, one line per step
MovePlanReadLine ==
  /\ scan.program = "make_move_plan"
  /\ ~plan.raised
  /\ Len(plan.per_file) < Len(scan.scanned)
  /\ LET Appended(r) ==
           [plan EXCEPT !.per_file = Append(@, r),
                        !.rows_for_plan = @ \o r.plan,
                        !.raised = (r.outcome = "raised")]
     IN plan' = Appended(MovePlanLine(db, DestRoot, DestRoot, scan.allow_needs_review,
                                      scan.scanned[Len(plan.per_file) + 1].win_path))
  /\ UNCHANGED <<scan, store_vars>>

\* the inventory is exhausted: the plan file is closed, the summary printed
MovePlanDone ==
  /\ scan.program = "make_move_plan"
  /\ ~plan.raised
  /\ Len(plan.per_file) = Len(scan.scanned)
  /\ ~plan.written
  /\ plan' = [plan EXCEPT !.written = TRUE]
  /\ UNCHANGED <<scan, store_vars>>

\* --------------------------------------------- dedup_recordings.main (plan)
\* bound: the most paths with llm metadata the store holds
MaxGroup == 3

\* code-point order of the characters that occur in paths and group keys
Chars ==
  <<FS, "0", "1", "2", ":", "C", "D", BS, "_", "a", "b", "c", "d", "e", "g", "p">>
Ord(ch) == CHOOSE i \in 1..Len(Chars) : Chars[i] = ch

\* a < b for Python strings
RECURSIVE StrLess(_, _)
StrLess(a, b) ==
  IF b = EMPTY THEN FALSE
  ELSE IF a = EMPTY THEN TRUE
  ELSE IF a[1] # b[1] THEN Ord(a[1]) < Ord(b[1])
  ELSE StrLess(Tail(a), Tail(b))

\* the sort key of choose_keep, compared as Python compares tuples:
\* (-not_corrupt, -resolution_score, -size_bytes, -mtime_ts, path)
RankBefore(a, b) ==
  \/ a.not_corrupt > b.not_corrupt
  \/ /\ a.not_corrupt = b.not_corrupt
     /\ \/ a.resolution_score > b.resolution_score
        \/ /\ a.resolution_score = b.resolution_score
           /\ \/ a.size_bytes > b.size_bytes
              \/ /\ a.size_bytes = b.size_bytes
                 /\ \/ a.mtime_ts > b.mtime_ts
                    \/ /\ a.mtime_ts = b.mtime_ts
                       /\ StrLess(a.path, b.path)

\* dedup_recordings.choose_keep: ranked[0] of the stable sort, that is the
\* first candidate of the list that no candidate ranks before
choose_keep(candidates) ==
  candidates[CHOOSE i \in 1..Len(candidates) :
               /\ \A j \in 1..Len(candidates) : ~RankBefore(candidates[j], candidates[i])
               /\ \A k \in 1..(i - 1) :
                    \E j \in 1..Len(candidates) : RankBefore(candidates[j], candidates[k])]

\* parse_confidence, in hundredths: float(v), 0.0 when that fails
parse_confidence(v) == IF v.t = "int" THEN v.n ELSE 0

\* parse_resolution_score for numbers and for values that are not strings
parse_resolution_score(v) == IF v.t = "int" THEN v.n ELSE 0

\* classify_broadcast_bucket with no keyword rule matching: the explicit
\* field when it names a bucket, else unknown
classify_broadcast_bucket(row) ==
  LET Explicit(str) ==
        IF str = <<"t">> THEN "terrestrial"
        ELSE IF str = <<"b">> THEN "bs_cs"
        ELSE "unknown"
  IN Explicit(IF JTruthy(MdGet(row, "broadcast_bucket"))
              THEN PyStr(MdGet(row, "broadcast_bucket")) ELSE EMPTY)

\* build_group_key: key::ep::episode, or no key
build_group_key(md) ==
  LET Keyed(key, ep) ==
        IF key = EMPTY THEN [ok |-> FALSE, key |-> EMPTY]
        ELSE IF ep.t # "null" /\ PyStr(ep) # EMPTY
        THEN [ok |-> TRUE, key |-> key \o <<":", ":", "e", "p", ":", ":">> \o PyStr(ep)]
        ELSE [ok |-> FALSE, key |-> EMPTY]
  IN Keyed(IF JTruthy(MdGet(md, "normalized_program_key"))
           THEN PyStr(MdGet(md, "normalized_program_key")) ELSE EMPTY,
           MdGet(md, "episode_no"))

\* --confidence-threshold (default 0.85), in hundredths
CONFIDENCE_THRESHOLD == 85

\* llm metadata of a recording of episode 1 of programme `key`
RecordingMd(key, bucket, resolution, confidence, needs_review) ==
  [k \in {"normalized_program_key", "episode_no", "broadcast_bucket", "resolution",
          "confidence", "needs_review"} |->
     CASE k = "normalized_program_key" -> JStr(key)
       [] k = "episode_no" -> JInt(1)
       [] k = "broadcast_bucket" -> JStr(bucket)
       [] k = "resolution" -> JInt(resolution)
       [] k = "confidence" -> JInt(confidence)
       [] OTHER -> JBool(needs_review)]
RecordingMds ==
  { RecordingMd(<<"g">>, <<"t">>, 2, 90, FALSE),
    RecordingMd(<<"g">>, <<"t">>, 1, 50, FALSE),
    RecordingMd(<<"g">>, <<"b">>, 1, 90, FALSE),
    RecordingMd(<<"g">>, EMPTY, 1, 90, TRUE) }

\* recordings: CdAv is how a move to c:\d\a leaves CdA in paths.path
CdAv == <<"c", ":", BS, "d", BS, "a">>
CdB == <<"C", ":", BS, "d", BS, "b">>
CdC == <<"C", ":", BS, "d", BS, "c">>
RecordingPaths == {CdA, CdAv, CdB, CdC}

\* what stat finds on disk: either two files alike but for the name and an
\* empty one, or files that differ in size and age
Stats(a, b, c) == [f \in {CdA, CdB, CdC} |-> IF f = CdA THEN a ELSE IF f = CdB THEN b ELSE c]
RecordingFiles ==
  { Stats([st_size |-> 100, st_mtime |-> 5], [st_size |-> 100, st_mtime |-> 5],
          [st_size |-> 0, st_mtime |-> 9]),
    Stats([st_size |-> 100, st_mtime |-> 5], [st_size |-> 100, st_mtime |-> 7],
          [st_size |-> 200, st_mtime |-> 1]) }

\* the Path row of a recording: inventoried where it lies, but for the one
\* that a move from SrcA brought to c:\d\a
RecordingId(path) == IF path = CdAv THEN path_id_for(SrcA) ELSE path_id_for(path)

\* stores holding llm metadata `mds` (a function of the path) for some recordings
RecordingDb(mds) ==
  [PlannerDb({}, {}) EXCEPT
     !.paths = [i \in {RecordingId(f) : f \in DOMAIN mds} |->
                  [InventoryPathRow(CHOOSE f \in DOMAIN mds : RecordingId(f) = i, 1)
                     EXCEPT !.path = CHOOSE f \in DOMAIN mds : RecordingId(f) = i]],
     !.path_metadata = [i \in {RecordingId(f) : f \in DOMAIN mds} |->
                          [source |-> "llm",
                           data_json |-> [dict |-> TRUE,
                                          items |-> mds[CHOOSE f \in DOMAIN mds :
                                                          RecordingId(f) = i]],
                           updated_at |-> 1]]]
RecordingStores(n) ==
  { RecordingDb(mds) :
      mds \in UNION { [F -> RecordingMds] :
                      F \in {G \in SUBSET RecordingPaths : Cardinality(G) <= n} } }

\* SELECT pm.path_id, pm.data_json, p.path FROM path_metadata pm JOIN paths p
\* WHERE pm.source='llm': the rows, and the orders they can come in
LlmRows(d) ==
  { [path_id |-> i, data_json |-> d.path_metadata[i].data_json, path |-> d.paths[i].path] :
      i \in { q \in DOMAIN d.path_metadata :
                q \in DOMAIN d.paths /\ d.path_metadata[q].source = "llm" } }
Orderings(S) ==
  { f \in [1..Cardinality(S) -> S] : \A i, j \in 1..Cardinality(S) : f[i] = f[j] => i = j }

\* the Candidate built from a row of md_rows, statting the file
Candidate(r, files) ==
  LET Stat(path_val, md, found) ==
        [path_id |-> r.path_id,
         path |-> path_val,
         group_key |-> build_group_key(md).key,
         confidence |-> parse_confidence(MdGet(md, "confidence")),
         needs_review |-> JTruthy(MdGet(md, "needs_review")),
         bucket |-> classify_broadcast_bucket(md),
         size_bytes |-> IF found THEN files[path_val].st_size ELSE 0,
         mtime_ts |-> IF found THEN files[path_val].st_mtime ELSE 0,
         resolution_score |-> parse_resolution_score(MdGet(md, "resolution")),
         not_corrupt |-> IF found /\ files[path_val].st_size > 0 THEN 1 ELSE 0]
      At(path_val) == Stat(path_val, r.data_json.items, path_val \in DOMAIN files)
  IN At(canonicalize_windows_path(r.path))

\* the candidates of md_rows in row order: rows that are dicts with a group key
Candidates(md_rows, files) ==
  LET Usable(r) == r.data_json.dict /\ build_group_key(r.data_json.items).ok
      Kept(rows) == [i \in 1..Len(rows) |-> Candidate(rows[i], files)]
  IN Kept(SelectSeq(md_rows, Usable))

\* grouped[gk], in insertion order
GroupOf(cands, gk) ==
  LET InGroup(c) == c.group_key = gk
  IN SelectSeq(cands, InGroup)

\* the set S as a sorted list
RECURSIVE SortedKeys(_)
SortedKeys(S) ==
  IF S = {} THEN <<>>
  ELSE LET Least(k) == <<k>> \o SortedKeys(S \ {k})
       IN Least(CHOOSE k \in S : \A o \in S \ {k} : StrLess(k, o))

\* group_keys: the keys of groups of two and more, sorted
GroupKeys(cands) ==
  SortedKeys({ cands[i].group_key : i \in { j \in 1..Len(cands) :
                 Len(GroupOf(cands, cands[j].group_key)) > 1 } })

\* a row of rows_plan
DedupPlanRow(gk, x, decision, reason, bucket_name) ==
  [group_key |-> gk, path_id |-> x.path_id, path |-> x.path, bucket |-> x.bucket,
   decision |-> decision, reason |-> reason, cohort |-> bucket_name]

\* (mutant) the first member is kept, the others go to manual review
ManualReview_KeepsFirst(gk, arr, reason) ==
  [routed |-> "manual",
   rows |-> [i \in 1..Len(arr) |->
               DedupPlanRow(gk, arr[i],
                            IF i = 1 THEN "keep" ELSE "manual_review_required", reason, "")],
   cohorts |-> <<>>]

\* every member of the group is routed to manual review
ManualReview(gk, arr, reason) ==
  [routed |-> "manual",
   rows |-> [i \in 1..Len(arr) |-> DedupPlanRow(gk, arr[i], "manual_review_required",
                                                reason, "")],
   cohorts |-> <<>>]

\* (mutant) every member of the cohort is kept
CohortRows_KeepsAll(gk, bucket_name, cohort) ==
  [i \in 1..Len(cohort) |-> DedupPlanRow(gk, cohort[i], "keep", "best_ranked", bucket_name)]

\* the rows of one cohort: its keep, then a drop for every other path_id
CohortRows(gk, bucket_name, cohort) ==
  LET NotKeep(keep) == LET Other(x) == x.path_id # keep.path_id
                       IN SelectSeq(cohort, Other)
      Drops(others) ==
        [i \in 1..Len(others) |-> DedupPlanRow(gk, others[i], "drop",
                                               "lower_rank_in_bucket", bucket_name)]
      Ranked(keep) ==
        <<DedupPlanRow(gk, keep, "keep", "best_ranked", bucket_name)>>
          \o Drops(NotKeep(keep))
  IN IF Len(cohort) = 1
     THEN <<DedupPlanRow(gk, cohort[1], "keep", "single_in_bucket", bucket_name)>>
     ELSE Ranked(choose_keep(cohort))

\* rows of all cohorts, in order
RECURSIVE AllCohortRows(_, _)
AllCohortRows(gk, cohorts) ==
  IF cohorts = <<>> THEN <<>>
  ELSE CohortRows(gk, cohorts[1].name, cohorts[1].members)
         \o AllCohortRows(gk, Tail(cohorts))

\* one iteration of `for gk in group_keys`: how the group was routed, the rows
\* appended to rows_plan, and the cohorts ranked
DedupGroup(gk, arr, allow_needs_review, keep_terrestrial_and_bscs) ==
  LET Eligible(x) == (allow_needs_review \/ ~x.needs_review)
                       /\ x.confidence >= CONFIDENCE_THRESHOLD
      Auto(cohorts) ==
        [routed |-> "auto", rows |-> AllCohortRows(gk, cohorts), cohorts |-> cohorts]
      Bucket(auto_eligible, b) == LET In(x) == x.bucket = b IN SelectSeq(auto_eligible, In)
      NonEmpty(c) == c.members # <<>>
      ByBucket(auto_eligible) ==
        IF Bucket(auto_eligible, "unknown") # <<>>
             /\ (Bucket(auto_eligible, "terrestrial") # <<>>
                   \/ Bucket(auto_eligible, "bs_cs") # <<>>)
        THEN ManualReview(gk, arr, "unknown_bucket_mixed")
        ELSE Auto(SelectSeq(<<[name |-> "terrestrial",
                            members |-> Bucket(auto_eligible, "terrestrial")],
                           [name |-> "bs_cs", members |-> Bucket(auto_eligible, "bs_cs")],
                           [name |-> "unknown",
                            members |-> Bucket(auto_eligible, "unknown")]>>, NonEmpty))
      Routed(auto_eligible) ==
        IF Len(auto_eligible) < 2
        THEN ManualReview(gk, arr, "low_confidence_or_needs_review")
        ELSE IF keep_terrestrial_and_bscs THEN ByBucket(auto_eligible)
        ELSE Auto(<<[name |-> "all", members |-> auto_eligible]>>)
  IN Routed(SelectSeq(arr, Eligible))

\* a dedup run: the llm rows in the order the query returns them, the files
\* on disk and the options; nothing planned yet
InitDedupPlan ==
  /\ StoreInit(RecordingStores(MaxGroup), MaxWork)
  /\ \E md_rows \in Orderings(LlmRows(db)) :
       scan \in [program : {"dedup"},
                 md_rows : {md_rows},
                 files : RecordingFiles,
                 allow_needs_review : BOOLEAN,
                 keep_terrestrial_and_bscs : BOOLEAN]
  /\ plan = [per_group |-> <<>>, rows_plan |-> <<>>, written |-> FALSE]

\* the group loop, one group per step
DedupPlanGroup ==
  /\ scan.program = "dedup"
  /\ LET Step(cands) ==
           LET Next_(keys) ==
                 /\ Len(plan.per_group) < Len(keys)
                 /\ LET Done(gk, arr) ==
                          LET Appended(r) ==
                                [plan EXCEPT
                                   !.per_group = Append(@, [group_key |-> gk, arr |-> arr,
                                                            routed |-> r.routed,
                                                            rows |-> r.rows,
                                                            cohorts |-> r.cohorts]),
                                   !.rows_plan = @ \o r.rows]
                          IN plan' = Appended(DedupGroup(gk, arr, scan.allow_needs_review,
                                                         scan.keep_terrestrial_and_bscs))
                        At(gk) == Done(gk, GroupOf(cands, gk))
                    IN At(keys[Len(plan.per_group) + 1])
           IN Next_(GroupKeys(cands))
     IN Step(Candidates(scan.md_rows, scan.files))
  /\ UNCHANGED <<scan, store_vars>>

\* after the loop: the plan file is written
DedupPlanWrite ==
  /\ scan.program = "dedup"
  /\ Len(plan.per_group) = Len(GroupKeys(Candidates(scan.md_rows, scan.files)))
  /\ ~plan.written
  /\ plan' = [plan EXCEPT !.written = TRUE]
  /\ UNCHANGED <<scan, store_vars>>

NextDedupPlan ==
  \/ DedupPlanGroup
  \/ DedupPlanWrite

SpecDedupPlan == InitDedupPlan /\ [][NextDedupPlan]_vars

InitPlanners == InitBackfill \/ InitRelocate \/ InitMovePlan


NextPlanners ==
  \/ BackfillPlanFile
  \/ BackfillWritePlan
  \/ RelocatePlanFile
  \/ RelocateWritePlan
  \/ MovePlanReadLine
  \/ MovePlanDone

SpecPlanners == InitPlanners /\ [][NextPlanners]_vars

\* ------------------------------------------- upsert_path_metadata_jsonl
\* lines of a metadata JSONL; data_json is json.dumps of the whole line
MetaLine(pid, p, reviewed) ==
  [path_id |-> pid, path |-> p, human_reviewed |-> reviewed,
   program_title |-> "s", air_date |-> "d", needs_review |-> JBool(FALSE)]
MetaLines ==
  { MetaLine(IdA, NULL, TRUE), MetaLine(IdA, NULL, FALSE),
    \* a line that names its file by path only
    MetaLine(NULL, SrcB, TRUE),
    \* a path_id no Path row carries
    MetaLine(IdGhost, NULL, FALSE),
    \* neither path_id nor path
    MetaLine(NULL, NULL, FALSE),
    \* needs_review absent
    [path_id |-> IdB, path |-> NULL, human_reviewed |-> FALSE,
     program_title |-> "s", air_date |-> "d"],
    \* needs_review not a bool
    [path_id |-> IdB, path |-> NULL, human_reviewed |-> FALSE,
     program_title |-> "s", air_date |-> "d", needs_review |-> JStr(<<"n", "o">>)] }
MetaArtifacts(n) == UNION { [1..k -> MetaLines] : k \in 0..n }
MetaSources == {"llm", "human"}

\* upsert_path_metadata_jsonl.validate_db_contract
validate_db_contract(rec) ==
  /\ DB_CONTRACT_REQUIRED \subseteq DOMAIN rec
  /\ rec["needs_review"].t = "bool"

\* the path_id of a line: its own, else that of the Path row at its path
MetaPathId(d, rec) ==
  IF Truthy(rec.path_id) THEN rec.path_id
  ELSE IF ~Truthy(rec.path) THEN NULL
  ELSE IF \E q \in DOMAIN d.paths : d.paths[q].path = rec.path
  THEN CHOOSE q \in DOMAIN d.paths : d.paths[q].path = rec.path
  ELSE NULL

\* the to_upsert list: one (path_id, source, data_json, updated_at) per line
\* that resolves to a path_id
MetaToUpsert(d, art, source, updated_at) ==
  LET sel == SelectSeq(art, LAMBDA rec : Truthy(MetaPathId(d, rec)))
  IN [i \in 1..Len(sel) |->
        [path_id |-> MetaPathId(d, sel[i]), source |-> source,
         data_json |-> sel[i], updated_at |-> updated_at]]

\* (mutant) ON CONFLICT(path_id) DO NOTHING
RECURSIVE UpsertPathMetadata_InsertOnly(_, _)
UpsertPathMetadata_InsertOnly(md, rows) ==
  IF rows = <<>> THEN md
  ELSE UpsertPathMetadata_InsertOnly(
         IF rows[1].path_id \in DOMAIN md THEN md
         ELSE Upsert(md, rows[1].path_id,
                     [source |-> rows[1].source, data_json |-> rows[1].data_json,
                      updated_at |-> rows[1].updated_at]),
         Tail(rows))

\* executemany of INSERT INTO path_metadata ... ON CONFLICT(path_id) DO UPDATE
\* SET source, data_json, updated_at = excluded.*
RECURSIVE UpsertPathMetadata(_, _)
UpsertPathMetadata(md, rows) ==
  IF rows = <<>> THEN md
  ELSE UpsertPathMetadata(
         Upsert(md, rows[1].path_id,
                [source |-> rows[1].source, data_json |-> rows[1].data_json,
                 updated_at |-> rows[1].updated_at]),
         Tail(rows))

\* main(): SystemExit on the first line that breaks the contract, before
\* anything is written; a dry run stops after counting; otherwise one
\* transaction holds every upsert, rolled back when a row's path_id has no
\* Path row and foreign keys are enforced
MetaMain(d, enforce, art, source, updated_at, dry_run) ==
  LET Write(rows) ==
        IF enforce /\ \E i \in 1..Len(rows) : rows[i].path_id \notin DOMAIN d.paths
        THEN [db |-> Rollback(d, d), outcome |-> "raised", to_upsert |-> rows]
        ELSE [db |-> [d EXCEPT !.path_metadata = UpsertPathMetadata(@, rows)],
              outcome |-> "committed", to_upsert |-> rows]
  IN IF \E i \in 1..Len(art) : ~validate_db_contract(art[i])
     THEN [db |-> d, outcome |-> "exit", to_upsert |-> <<>>]
     ELSE IF dry_run
     THEN [db |-> d, outcome |-> "dry_run",
           to_upsert |-> MetaToUpsert(d, art, source, updated_at)]
     ELSE Write(MetaToUpsert(d, art, source, updated_at))

\* one run of upsert_path_metadata_jsonl
UpsertMetadata(art, source, dry_run) ==
  /\ pc = "idle"
  /\ nread + Cost(art) <= MaxWork
  /\ nread' = nread + Cost(art)
  /\ LET Done(r) ==
           /\ db' = r.db
           /\ snapshot' = r.db
           /\ batches' = Append(batches,
                [kind |-> "metadata", applied |-> art, outcome |-> r.outcome,
                 run_id |-> NULLRUN, pre |-> db, inflight |-> db, post |-> r.db,
                 move_rows |-> <<>>, counters |-> ZeroCounters, events |-> 0,
                 source |-> source, updated_at |-> clock,
                 to_upsert |-> r.to_upsert])
     IN Done(MetaMain(db, fk, art, source, clock, dry_run))
  /\ clock' = clock + 1
  /\ UNCHANGED <<fk, nruns, pc, applied, move_rows, idx, rows_events, counters,
                 run_id, scan, plan>>

\* metadata upserts interleaved with apply batches whose moves collide
MergeRecords == {MoveOk(IdA, DstB), MoveOk(IdA, DstZ), MoveOk(IdB, DstZ)}
MergeArtifacts(n) == UNION { [1..k -> MergeRecords] : k \in 1..n }

NextMetadata ==
  \/ \E art \in MetaArtifacts(MaxWork), source \in MetaSources, dry_run \in BOOLEAN :
       UpsertMetadata(art, source, dry_run)
  \/ \E art \in MergeArtifacts(MaxWork) : ApplyStart(art)
  \/ ApplyRow
  \/ ApplyCommit
  \/ ApplyRaise

SpecMetadata == Init /\ [][NextMetadata]_vars

\* ---------------------------------------- relocate_existing_files: apply
\* the relocate run from the scan to the exit status; scan warnings are counted
MaxWarn == 2

\* the stores and the scan of the run specification: no metadata at all, or
\* metadata that places SrcA at Placed
GoodMd ==
  [dict |-> TRUE,
   items |-> [k \in DB_CONTRACT_REQUIRED |->
                CASE k = "program_title" -> JStr(<<"s">>)
                  [] k = "air_date" -> JStr(GoodDate)
                  [] OTHER -> JBool(FALSE)]]
RelocateRunStores ==
  { RelocateDb(EmptyTable),
    RelocateDb([i \in {path_id_for(SrcA), path_id_for(Placed)} |->
                  [source |-> "llm", data_json |-> GoodMd, updated_at |-> 1]]),
    [RelocateDb([i \in {path_id_for(SrcA)} |->
                  [source |-> "llm", data_json |-> GoodMd, updated_at |-> 1]])
       EXCEPT !.paths = Remove(@, {path_id_for(Placed)}),
              !.observations = Remove(@, {<<1, path_id_for(Placed)>>})] }
RelocateRunScanned ==
  { ScannedFile(SrcA, 100, FALSE), ScannedFile(DstZ, 100, FALSE) }

\* the part of the run's state that follows the plan
RunTail(scan_errors, store) ==
  [phase |-> "plan", errors |-> scan_errors, autoreg |-> "none",
   mover_invoked |-> FALSE, mover_returned |-> FALSE, mover_result |-> <<>>,
   store0 |-> store, printed |-> FALSE, ok |-> FALSE, rc |-> -1,
   scan_error_policy |-> "warn", scan_error_threshold |-> 0, warnings |-> 0]

InitRelocateRun ==
  /\ StoreInit(RelocateRunStores, 0)
  /\ scan \in [program : {"relocate"},
               scanned : ScanLists(RelocateRunScanned, MaxScan),
               apply : BOOLEAN,
               allow_needs_review : {FALSE},
               scan_errors : {<<>>, <<"root missing">>}]
  /\ plan = [per_file |-> <<>>, rows_for_plan |-> <<>>, rows_for_move |-> <<>>,
             rows_for_autoreg |-> <<>>, written |-> FALSE,
             tail |-> RunTail(scan.scan_errors, db)]

\* the pre-register transaction: a Run row, and per row of rows_for_autoreg a
\* Path upsert on path_id, an Observation upsert and a relocate_register Event;
\* `fault` is sqlite failing for a reason outside the store (a locked file)
RECURSIVE AutoRegisterRows(_, _, _, _)
AutoRegisterRows(d, rows, rid, ts) ==
  IF rows = <<>> THEN [db |-> d, raised |-> FALSE]
  ELSE IF PathTakenByOther(d, rows[1].path_id, rows[1].path)
  THEN [db |-> d, raised |-> TRUE]
  ELSE AutoRegisterRows(
         [d EXCEPT
            !.paths = Upsert(@, rows[1].path_id,
               IF rows[1].path_id \in DOMAIN d.paths
               THEN [InventoryPathRow(rows[1].path, ts) EXCEPT
                       !.created_at = d.paths[rows[1].path_id].created_at]
               ELSE InventoryPathRow(rows[1].path, ts)),
            !.observations = Upsert(@, <<rid, rows[1].path_id>>,
               [size_bytes |-> rows[1].size_bytes, mtime_utc |-> 0]),
            !.events = Append(@,
               [run_id |-> rid, ts |-> ts, kind |-> "relocate_register",
                src_path_id |-> rows[1].path_id, dst_path_id |-> NULL,
                detail_json |-> [path |-> rows[1].path,
                                 op |-> "register_missing_path_for_relocate"],
                ok |-> 1, error |-> NULLSTR])],
         Tail(rows), rid, ts)

AutoRegister(d, rows, rid, ts, fault) ==
  LET Closed(r) ==
        IF r.raised THEN [db |-> Rollback(r.db, d), raised |-> TRUE]
        ELSE [db |-> CloseRun(r.db, rid, ts + 1), raised |-> FALSE]
  IN IF fault THEN [db |-> Rollback(d, d), raised |-> TRUE]
     ELSE Closed(AutoRegisterRows(OpenRun(d, rid, "relocate_preregister", ts),
                                  rows, rid, ts))

\* `if args.apply and rows_for_autoreg`: the transaction, its failure caught
\* and appended to errors
RelocateAutoRegister(fault) ==
  /\ scan # NoScan /\ scan.program = "relocate"
  /\ plan.written /\ plan.tail.phase = "plan"
  /\ IF scan.apply /\ plan.rows_for_autoreg # <<>>
     THEN LET Done(r) ==
                /\ db' = r.db
                /\ snapshot' = r.db
                /\ plan' = [plan EXCEPT
                     !.tail.phase = "move",
                     !.tail.autoreg = IF r.raised THEN "failed" ELSE "committed",
                     !.tail.errors = IF r.raised
                                     THEN Append(@, "relocate auto-register failed")
                                     ELSE @]
          IN /\ Done(AutoRegister(db, plan.rows_for_autoreg, nruns + 1, clock, fault))
             /\ nruns' = nruns + 1
             /\ clock' = clock + 2
     ELSE /\ ~fault
          /\ plan' = [plan EXCEPT !.tail.phase = "move", !.tail.autoreg = "skipped"]
          /\ UNCHANGED <<db, snapshot, nruns, clock>>
  /\ UNCHANGED <<scan, fk, pc, applied, move_rows, idx, rows_events, counters,
                 run_id, nread, batches>>

\* what apply_move_plan.ps1 reports for one row of the internal move plan
MoverRecord(row, moved) ==
  [op |-> "move", ok |-> moved, path_id |-> row.path_id, src |-> row.src,
   dst |-> row.dst, error |-> IF moved THEN NULLSTR ELSE "dst_exists"]

\* (mutant) the mover runs whatever the error list holds
MoverGate_IgnoresErrors(errors) == TRUE

\* `if errors: ... else:` in front of the mover
MoverGate(errors) == errors = <<>>

\* `if args.apply and rows_for_move`: with errors nothing moves; otherwise the
\* mover runs and either raises, returns no result file, or returns one
\* outcome per planned move; a failed outcome is an error
RelocateMove(returned, outcomes) ==
  /\ scan # NoScan /\ scan.program = "relocate"
  /\ plan.tail.phase = "move"
  /\ IF scan.apply /\ plan.rows_for_move # <<>> /\ MoverGate(plan.tail.errors)
     THEN /\ returned \in {"raised", "no_file", "file"}
          /\ outcomes \in [1..Len(plan.rows_for_move) -> BOOLEAN]
          /\ returned # "file" => \A i \in DOMAIN outcomes : outcomes[i]
          /\ plan' = [plan EXCEPT
               !.tail.mover_invoked = TRUE,
               !.tail.mover_returned = (returned = "file"),
               !.tail.mover_result =
                  IF returned = "file"
                  THEN [i \in 1..Len(plan.rows_for_move) |->
                          MoverRecord(plan.rows_for_move[i], outcomes[i])]
                  ELSE <<>>,
               !.tail.errors =
                  CASE returned = "no_file" ->
                         Append(@, "apply_move_plan.ps1 did not return valid out_jsonl")
                    [] returned = "file" /\ \E i \in DOMAIN outcomes : ~outcomes[i] ->
                         Append(@, "move apply had failures")
                    [] OTHER -> @,
               !.tail.phase = CASE returned = "raised" -> "done"
                                [] returned = "no_file" -> "summary"
                                [] OTHER -> "db_update",
               !.tail.rc = IF returned = "raised" THEN 1 ELSE @]
     ELSE /\ returned = "file" /\ outcomes = <<>>
          /\ plan' = [plan EXCEPT !.tail.phase = "summary"]
  /\ UNCHANGED <<scan, store_vars>>

\* update_db_paths_from_move_apply, run as a child process on the result file
RelocateDbUpdateStart ==
  /\ scan # NoScan /\ scan.program = "relocate"
  /\ plan.tail.phase = "db_update"
  /\ batches = <<>>
  /\ ApplyStart(plan.tail.mover_result)

\* the child's exit status: non-zero when its transaction raised
RelocateDbUpdated ==
  /\ scan # NoScan /\ scan.program = "relocate"
  /\ plan.tail.phase = "db_update"
  /\ pc = "idle" /\ batches # <<>>
  /\ plan' = [plan EXCEPT
       !.tail.phase = "summary",
       !.tail.errors = IF batches[1].outcome = "raised"
                       THEN Append(@, "update_db_paths_from_move_apply failed")
                       ELSE @]
  /\ UNCHANGED <<scan, store_vars>>

\* the scan-warning policy at the end of main
ScanPolicyErrors(policy, threshold, warnings) ==
  (IF policy = "fail" /\ warnings > 0
   THEN <<"scan warnings treated as fatal by policy=fail">> ELSE <<>>)
  \o (IF policy # "threshold" THEN <<>>
      ELSE IF Max2(0, threshold) <= 0
      THEN <<"scanErrorThreshold must be > 0 when scanErrorPolicy=threshold">>
      ELSE IF warnings > Max2(0, threshold)
      THEN <<"scan warnings exceeded threshold">>
      ELSE <<>>)

\* (mutant) the exit status is always 0
ExitStatus_AlwaysZero(errors) == 0

\* return 0 if summary["ok"] else 1, with ok = (len(errors) == 0)
ExitStatus(errors) == IF Len(errors) = 0 THEN 0 ELSE 1

\* the end of main: policy errors, the printed summary, the exit status
Summarised(policy, threshold, warnings) ==
  [plan EXCEPT
     !.tail.phase = "done",
     !.tail.scan_error_policy = policy,
     !.tail.scan_error_threshold = threshold,
     !.tail.warnings = warnings,
     !.tail.errors = @ \o ScanPolicyErrors(policy, threshold, warnings),
     !.tail.printed = TRUE,
     !.tail.ok = (Len(plan.tail.errors \o ScanPolicyErrors(policy, threshold, warnings)) = 0),
     !.tail.rc = ExitStatus(plan.tail.errors \o ScanPolicyErrors(policy, threshold, warnings))]

ScanPolicies == {"warn", "fail", "threshold"}
ScanThresholds == {-1, 0, 1}

RelocateSummary(policy, threshold, warnings) ==
  /\ scan # NoScan /\ scan.program = "relocate"
  /\ plan.tail.phase = "summary"
  /\ plan' = Summarised(policy, threshold, warnings)
  /\ UNCHANGED <<scan, store_vars>>

\* ------------------------------------------ backfill_moved_files: apply
BackfillRunStores == { PlannerDb({SrcA}, {}), PlannerDb({SrcA}, {SrcA}) }
BackfillRunScanned ==
  { ScannedFile(SrcA, 100, FALSE), ScannedFile(CdA, 100, FALSE),
    ScannedFile(DstZ, 100, FALSE) }

InitBackfillRun ==
  /\ StoreInit(BackfillRunStores, MaxWork)
  /\ scan \in [program : {"backfill"},
               scanned : ScanLists(BackfillRunScanned, MaxScan),
               include_observations : {TRUE},
               drive_map : DriveMaps,
               apply : BOOLEAN,
               scan_errors : {<<>>, <<"root missing">>}]
  /\ plan = [per_file |-> <<>>, rows_for_plan |-> <<>>, rows_for_apply |-> <<>>,
             written |-> FALSE, tail |-> RunTail(scan.scan_errors, db)]

\* the apply transaction's row loop: per row of rows_for_apply a Path upsert
\* on path_id, an Observation upsert when include_observations, and an Event
RECURSIVE BackfillApplyRows(_, _, _, _, _)
BackfillApplyRows(d, rows, rid, ts, include_observations) ==
  IF rows = <<>> THEN [db |-> d, raised |-> FALSE]
  ELSE IF PathTakenByOther(d, rows[1].path_id, rows[1].path)
  THEN [db |-> d, raised |-> TRUE]
  ELSE BackfillApplyRows(
         [d EXCEPT
            !.paths = Upsert(@, rows[1].path_id,
               IF rows[1].path_id \in DOMAIN d.paths
               THEN [InventoryPathRow(rows[1].path, ts) EXCEPT
                       !.created_at = d.paths[rows[1].path_id].created_at]
               ELSE InventoryPathRow(rows[1].path, ts)),
            !.observations =
               IF include_observations
               THEN Upsert(@, <<rid, rows[1].path_id>>,
                           [size_bytes |-> rows[1].size_bytes, mtime_utc |-> 0])
               ELSE @,
            !.events = Append(@,
               [run_id |-> rid, ts |-> ts,
                kind |-> CASE rows[1].op = "remap_update" -> "backfill_remap"
                           [] rows[1].op = "rename_update" -> "backfill_rename_detected"
                           [] OTHER -> "backfill_register",
                src_path_id |-> rows[1].path_id, dst_path_id |-> NULL,
                detail_json |-> [path |-> rows[1].path, op |-> rows[1].op],
                ok |-> 1, error |-> NULLSTR])],
         Tail(rows), rid, ts, include_observations)

\* `if args.apply`: the transaction; an exception rolls back and leaves main;
\* `fault` is sqlite failing for a reason outside the store (a locked file)
BackfillApply(fault) ==
  /\ scan # NoScan /\ scan.program = "backfill"
  /\ plan.written /\ plan.tail.phase = "plan"
  /\ IF scan.apply
     THEN LET Done(r) ==
                /\ db' = IF r.raised THEN Rollback(r.db, db)
                         ELSE CloseRun(r.db, nruns + 1, clock + 1)
                /\ snapshot' = db'
                /\ plan' = [plan EXCEPT
                     !.tail.phase = IF r.raised THEN "done" ELSE "summary",
                     !.tail.rc = IF r.raised THEN 1 ELSE @]
          IN /\ Done(IF fault THEN [db |-> db, raised |-> TRUE]
                     ELSE BackfillApplyRows(OpenRun(db, nruns + 1, "backfill", clock),
                                            plan.rows_for_apply, nruns + 1, clock,
                                            scan.include_observations))
             /\ nruns' = nruns + 1
             /\ clock' = clock + 2
     ELSE /\ ~fault
          /\ plan' = [plan EXCEPT !.tail.phase = "summary"]
          /\ UNCHANGED <<db, snapshot, nruns, clock>>
  /\ UNCHANGED <<scan, fk, pc, applied, move_rows, idx, rows_events, counters,
                 run_id, nread, batches>>

BackfillSummary(policy, threshold, warnings) ==
  /\ scan # NoScan /\ scan.program = "backfill"
  /\ plan.tail.phase = "summary"
  /\ plan' = Summarised(policy, threshold, warnings)
  /\ UNCHANGED <<scan, store_vars>>

\* ----------------------------------------------- dedup_recordings: apply
\* dedup_recordings.safe_group_key, for keys shorter than 120 characters
SafeKeyChars ==
  Digits \cup {".", "_", "-"}
    \cup {"a", "b", "c", "d", "e", "f", "g", "h", "i", "j", "k", "l", "m", "n", "o",
          "p", "q", "r", "s", "t", "u", "v", "w", "x", "y", "z"}
    \cup {"A", "B", "C", "D", "E", "F", "G", "H", "I", "J", "K", "L", "M", "N", "O",
          "P", "Q", "R", "S", "T", "U", "V", "W", "X", "Y", "Z"}
RECURSIVE SquashRuns(_)
SquashRuns(s) ==
  IF Len(s) < 2 THEN s
  ELSE IF s[1] = "_" /\ s[2] = "_" THEN SquashRuns(Tail(s))
  ELSE <<s[1]>> \o SquashRuns(Tail(s))
safe_group_key(str) ==
  LET Named(x) == IF x = EMPTY THEN <<"g", "r", "o", "u", "p">> ELSE x
      Replaced == [i \in 1..Len(str) |-> IF str[i] \in SafeKeyChars THEN str[i] ELSE "_"]
  IN Named(RStrip(LStrip(SquashRuns(Replaced), {".", "_", "-"}), {".", "_", "-"}))

\* <ops_root>\duplicates\quarantine as a Windows path
QuarantineRoot == <<"C", ":", BS, "q">>

\* the row of the internal move plan written for a row of rows_drop
DedupMoveRow(row) ==
  [path_id |-> row.path_id,
   src |-> canonicalize_windows_path(row.path),
   dst |-> canonicalize_windows_path(
             canonicalize_windows_path(QuarantineRoot \o <<BS>> \o safe_group_key(row.group_key))
               \o <<BS>> \o PureWindowsPath(canonicalize_windows_path(row.path)).name)]

\* rows_drop: the rows of the plan decided "drop"
rows_drop(rows_plan) == SelectSeq(rows_plan, LAMBDA r : r.decision = "drop")

SameRecording == RecordingMd(<<"g">>, <<"t">>, 2, 90, FALSE)
DedupRunStores ==
  { RecordingDb([f \in F |-> SameRecording]) : F \in {{CdA}, {CdA, CdB}, {CdA, CdB, CdC}} }

InitDedupRun ==
  /\ StoreInit(DedupRunStores, 0)
  /\ \E md_rows \in Orderings(LlmRows(db)) :
       scan \in [program : {"dedup"},
                 md_rows : {md_rows},
                 files : {CHOOSE f \in RecordingFiles : f[CdC].st_size = 200},
                 allow_needs_review : {FALSE},
                 keep_terrestrial_and_bscs : {FALSE},
                 apply : BOOLEAN,
                 scan_errors : {<<>>, <<"invalid metadata json">>}]
  /\ plan = [per_group |-> <<>>, rows_plan |-> <<>>, written |-> FALSE,
             tail |-> RunTail(scan.scan_errors, db)]

\* `if args.apply`: without the mover script an error; otherwise the mover
\* runs whatever errors holds, and a raise or a missing result file is caught
\* and appended to errors
DedupMove(script_exists, returned, outcomes) ==
  /\ scan # NoScan /\ scan.program = "dedup"
  /\ plan.written /\ plan.tail.phase = "plan"
  /\ IF ~scan.apply
     THEN /\ script_exists /\ returned = "file" /\ outcomes = <<>>
          /\ plan' = [plan EXCEPT !.tail.phase = "summary"]
     ELSE IF ~script_exists
     THEN /\ returned = "file" /\ outcomes = <<>>
          /\ plan' = [plan EXCEPT
               !.tail.phase = "summary",
               !.tail.errors = Append(@, "apply_move_plan.ps1 not found")]
     ELSE /\ returned \in {"raised", "no_file", "file"}
          /\ outcomes \in [1..Len(rows_drop(plan.rows_plan)) -> BOOLEAN]
          /\ returned # "file" => \A i \in DOMAIN outcomes : outcomes[i]
          /\ plan' = [plan EXCEPT
               !.tail.mover_invoked = TRUE,
               !.tail.mover_returned = (returned = "file"),
               !.tail.mover_result =
                  IF returned = "file"
                  THEN [i \in 1..Len(rows_drop(plan.rows_plan)) |->
                          MoverRecord(DedupMoveRow(rows_drop(plan.rows_plan)[i]),
                                      outcomes[i])]
                  ELSE <<>>,
               !.tail.errors = IF returned = "file" THEN @
                               ELSE Append(@, "dedup apply move engine failed"),
               !.tail.phase = IF returned = "file" THEN "db_update" ELSE "summary"]
  /\ UNCHANGED <<scan, store_vars>>

\* `if move_apply_file is not None`: the store transaction on the result file
DedupDbUpdateStart ==
  /\ scan # NoScan /\ scan.program = "dedup"
  /\ plan.tail.phase = "db_update"
  /\ batches = <<>>
  /\ DedupStart(plan.tail.mover_result)

\* after the transaction: an exception has left main; otherwise errors holds
\* one entry per failed move
DedupDbUpdated ==
  /\ scan # NoScan /\ scan.program = "dedup"
  /\ plan.tail.phase = "db_update"
  /\ pc = "idle" /\ batches # <<>>
  /\ plan' = [plan EXCEPT
       !.tail.phase = IF batches[1].outcome = "raised" THEN "done" ELSE "summary",
       !.tail.rc = IF batches[1].outcome = "raised" THEN 1 ELSE @,
       !.tail.errors = IF batches[1].outcome = "raised" THEN @
                       ELSE @ \o [i \in 1..batches[1].counters.errors |-> "move failed"]]
  /\ UNCHANGED <<scan, store_vars>>

\* the end of main: dedup has no scan, hence no warning policy
DedupSummary ==
  /\ scan # NoScan /\ scan.program = "dedup"
  /\ plan.tail.phase = "summary"
  /\ plan' = Summarised("warn", 0, 0)
  /\ UNCHANGED <<scan, store_vars>>

\* ---------------------------------------------------- the three batch runs
InitRuns == InitBackfillRun \/ InitRelocateRun \/ InitDedupRun

NextRuns ==
  \/ BackfillPlanFile
  \/ BackfillWritePlan
  \/ \E fault \in BOOLEAN : BackfillApply(fault)
  \/ \E policy \in ScanPolicies, threshold \in ScanThresholds, warnings \in 0..MaxWarn :
       BackfillSummary(policy, threshold, warnings)
  \/ RelocatePlanFile
  \/ RelocateWritePlan
  \/ \E fault \in BOOLEAN : RelocateAutoRegister(fault)
  \/ \E returned \in {"raised", "no_file", "file"},
        outcomes \in UNION { [1..k -> BOOLEAN] : k \in 0..MaxScan } :
       RelocateMove(returned, outcomes)
  \/ RelocateDbUpdateStart
  \/ ApplyRow
  \/ ApplyCommit
  \/ ApplyRaise
  \/ RelocateDbUpdated
  \/ \E policy \in ScanPolicies, threshold \in ScanThresholds, warnings \in 0..MaxWarn :
       RelocateSummary(policy, threshold, warnings)
  \/ DedupPlanGroup
  \/ DedupPlanWrite
  \/ \E script_exists \in BOOLEAN, returned \in {"raised", "no_file", "file"},
        outcomes \in UNION { [1..k -> BOOLEAN] : k \in 0..MaxGroup } :
       DedupMove(script_exists, returned, outcomes)
  \/ DedupDbUpdateStart
  \/ DedupRow
  \/ DedupCommit
  \/ DedupRaise
  \/ DedupDbUpdated
  \/ DedupSummary

SpecRuns == InitRuns /\ [][NextRuns]_vars

\* ================================================================ claims
Committed(k) == {n \in 1..Len(batches) : batches[n].kind = k /\ batches[n].outcome = "committed"}
Raised(k) == {n \in 1..Len(batches) : batches[n].kind = k /\ batches[n].outcome = "raised"}

\* the Path row of pid is the same in stores d and e: same existence, and the
\* same path, dir and name
SamePathRow(d, e, pid) ==
  /\ (pid \in DOMAIN d.paths) <=> (pid \in DOMAIN e.paths)
  /\ pid \in DOMAIN d.paths =>
       /\ d.paths[pid].path = e.paths[pid].path
       /\ d.paths[pid].dir = e.paths[pid].dir
       /\ d.paths[pid].name = e.paths[pid].name

\* no Path row was mutated between stores d and e: none deleted or added, and
\* path, dir, name and updated_at of every row unchanged
NoPathMutation(d, e) ==
  /\ DOMAIN d.paths = DOMAIN e.paths
  /\ \A pid \in DOMAIN d.paths :
       SamePathRow(d, e, pid) /\ d.paths[pid].updated_at = e.paths[pid].updated_at

\* Events written by run rid in store d
EventsOfRun(d, rid) == {i \in 1..Len(d.events) : d.events[i].run_id = rid}

\* C1: when the move-apply engine has committed an artifact and is run again on
\* the same artifact, the second run counts every processed row as
\* already_applied and mutates no Path row.
C1_SecondRunAlreadyApplied ==
  \A n \in Committed("apply") :
    (n > 1 /\ (n - 1) \in Committed("apply")
       /\ batches[n].applied = batches[n - 1].applied)
    => /\ batches[n].counters.already_applied = Len(batches[n].move_rows)
       /\ NoPathMutation(batches[n].pre, batches[n].post)

\* the tables the batch atomicity contract names
ContractTables(d) ==
  <<d.paths, d.observations, d.path_metadata, d.file_paths, d.path_tags, d.events>>

\* C2: when an error is raised while a move-apply batch is processing its rows,
\* the store (Paths, Observations, PathMetadata, FilePaths, PathTags, Events)
\* is afterwards exactly what it was before the batch, whatever earlier rows
\* of the batch had already updated or merged.
C2_RaisedBatchRestoresStore ==
  (pc = "idle" /\ Len(batches) > 0 /\ batches[Len(batches)].kind = "apply"
     /\ batches[Len(batches)].outcome = "raised")
  => ContractTables(db) = ContractTables(batches[Len(batches)].pre)

\* a move-apply batch raised after one of its rows had merged a Path row away
C2_Witness ==
  \E n \in Raised("apply") :
    /\ batches[n].pre = db
    /\ DOMAIN batches[n].inflight.paths # DOMAIN batches[n].pre.paths
    /\ batches[n].inflight.path_metadata # batches[n].pre.path_metadata

\* C3: a committed move-apply batch holds exactly one Event of its run for
\* every record of the artifact with op = "move", whether ok is true or false.
C3_OneEventPerMoveOutcome ==
  \A n \in Committed("apply") :
    Cardinality(EventsOfRun(batches[n].post, batches[n].run_id))
      = Cardinality({i \in 1..Len(batches[n].applied) : batches[n].applied[i].op = "move"})

\* path ids that the artifact names in failed move outcomes only
FailedOnly(art) ==
  { art[i].path_id : i \in {j \in 1..Len(art) : art[j].op = "move" /\ ~art[j].ok} }
    \ { art[i].path_id : i \in {j \in 1..Len(art) : art[j].op = "move" /\ art[j].ok} }

\* C4: after a committed batch of the move-apply engine or of the dedup apply
\* step, every Path row whose path_id appears only in ok=false outcomes has the
\* path, dir, name and existence it had before the batch.
C4_FailedMoveLeavesPathRow ==
  \A n \in Committed("apply") \cup Committed("dedup") :
    \A pid \in FailedOnly(batches[n].applied) :
      SamePathRow(batches[n].pre, batches[n].post, pid)

\* C5: for an outcome with ok=false for path_id P1, the committed batch holds
\* an Event of its run for P1 with ok = 0 and an error string, and the Path
\* row of P1 is unchanged.
C5_FailedMoveRecorded ==
  \A n \in Committed("apply") \cup Committed("dedup") :
    \A i \in 1..Len(batches[n].applied) :
      LET rec == batches[n].applied[i]
      IN (rec.op = "move" /\ ~rec.ok /\ Truthy(rec.path_id)
            /\ rec.path_id \in FailedOnly(batches[n].applied))
         => /\ \E e \in EventsOfRun(batches[n].post, batches[n].run_id) :
                 /\ batches[n].post.events[e].src_path_id = rec.path_id
                 /\ batches[n].post.events[e].ok = 0
                 /\ batches[n].post.events[e].error # NULLSTR
            /\ SamePathRow(batches[n].pre, batches[n].post, rec.path_id)

\* the row the loop is about to process is a collision: its path_id has a
\* Path row and its dst is the path of a Path row with another id
AtCollision ==
  /\ pc = "apply_loop"
  /\ idx <= Len(move_rows)
  /\ move_rows[idx].path_id \in DOMAIN db.paths
  /\ PathTakenByOther(db, move_rows[idx].path_id, move_rows[idx].dst)

OwnerOf(d, p) == CHOOSE q \in DOMAIN d.paths : d.paths[q].path = p

\* C6: when a move outcome's source id S has a Path row and its dst is owned by
\* another id D, then after the merge of the two rows only D remains, with
\* path = dst, no Path row has id S and no PathMetadata row has path_id S.
C6_MergePostcondition ==
  [][(AtCollision /\ idx' = idx + 1)
       => LET S == move_rows[idx].path_id
              D == OwnerOf(db, move_rows[idx].dst)
          IN /\ DOMAIN db'.paths = (DOMAIN db.paths) \ {S}
             /\ D \in DOMAIN db'.paths
             /\ db'.paths[D].path = move_rows[idx].dst
             /\ S \notin DOMAIN db'.path_metadata
             /\ counters'.merged_conflicts = counters.merged_conflicts + 1]_vars

\* a batch merged a source that had a PathMetadata row into a destination
\* that had none, and committed
C6_Witness ==
  \E n \in Committed("apply") :
    /\ batches[n].counters.merged_conflicts = 1
    /\ IdA \in DOMAIN batches[n].pre.path_metadata
    /\ IdB \notin DOMAIN batches[n].pre.path_metadata
    /\ <<1, IdA>> \notin DOMAIN batches[n].pre.observations
    /\ DOMAIN batches[n].post.paths = {IdB}

\* C7: after a committed move-apply batch that merged source id S away, no
\* Event in the store has src_path_id = S or dst_path_id = S.
C7_NoEventNamesMergedSource ==
  \A n \in Committed("apply") :
    \A S \in (DOMAIN batches[n].pre.paths) \ (DOMAIN batches[n].post.paths) :
      \A i \in 1..Len(batches[n].post.events) :
        /\ batches[n].post.events[i].src_path_id # S
        /\ batches[n].post.events[i].dst_path_id # S

\* C8: every committed batch leaves each Event that was in the store before it
\* in place with all its columns unchanged, and deletes no Run row.
C8_EventLogAppendOnly ==
  \A n \in 1..Len(batches) :
    batches[n].outcome = "committed"
    => /\ Len(batches[n].pre.events) <= Len(batches[n].post.events)
       /\ \A i \in 1..Len(batches[n].pre.events) :
            batches[n].post.events[i] = batches[n].pre.events[i]
       /\ DOMAIN batches[n].pre.runs \subseteq DOMAIN batches[n].post.runs

\* C9: after a batch aborted by an error during row processing, the store
\* holds the Run row of that batch with finished_at unset.
C9_AbortedRunLeftOpen ==
  \A n \in 1..Len(batches) :
    batches[n].outcome = "raised"
    => /\ batches[n].run_id \in DOMAIN batches[n].post.runs
       /\ batches[n].post.runs[batches[n].run_id].finished_at = NULLTS

\* the row the loop is about to process names a path_id without a Path row
\* and a dst no Path row owns
AtMissingSource ==
  /\ pc = "apply_loop"
  /\ idx <= Len(move_rows)
  /\ move_rows[idx].path_id \notin DOMAIN db.paths
  /\ \A q \in DOMAIN db.paths : db.paths[q].path # move_rows[idx].dst

\* C10: a successful move outcome whose path_id has no Path row and whose dst
\* no Path row owns is counted in missing_src_path_rows, changes no row of the
\* store and does not end the loop; the Event queued for it names no path id,
\* so it cannot fail the final insert.
C10_MissingSourceIsRowLocal ==
  [][(AtMissingSource /\ idx' = idx + 1)
       => /\ db' = db
          /\ counters' = [counters EXCEPT !.missing_src_path_rows = @ + 1]
          /\ pc' = "apply_loop"
          /\ Len(rows_events') = idx
          /\ EventFkOk(db', rows_events'[idx])]_vars

\* a committed batch counted a missing source and still updated another row
C10_Witness ==
  \E n \in Committed("apply") :
    /\ batches[n].counters.missing_src_path_rows = 1
    /\ batches[n].counters.updated = 1
    /\ batches[n].applied[1].path_id = IdGhost

\* the row the loop is about to process names a path_id without a Path row
\* while a Path row owns its dst
AtReplay ==
  /\ pc = "apply_loop"
  /\ idx <= Len(move_rows)
  /\ move_rows[idx].path_id \notin DOMAIN db.paths
  /\ \E q \in DOMAIN db.paths : db.paths[q].path = move_rows[idx].dst

\* C11: a move outcome whose path_id has no Path row while a Path row with
\* path = dst exists is counted as already_applied and changes no Path,
\* Observation, PathMetadata, FilePath or PathTag row.
C11_ReplayCountsAndKeepsStore ==
  [][(AtReplay /\ idx' = idx + 1)
       => /\ counters' = [counters EXCEPT !.already_applied = @ + 1]
          /\ db'.paths = db.paths
          /\ db'.observations = db.observations
          /\ db'.path_metadata = db.path_metadata
          /\ db'.file_paths = db.file_paths
          /\ db'.path_tags = db.path_tags]_vars

\* a batch merged IdA away and committed; the next batch replayed the same
\* artifact, counted its row as already_applied and committed
C11_Witness ==
  \E n \in Committed("apply") :
    /\ n > 1
    /\ batches[n].counters.already_applied = 1
    /\ batches[n - 1].counters.merged_conflicts = 1
    /\ batches[n].applied = batches[n - 1].applied

\* the lower-cased, backslash-unified form of a path string
Unified(p) == [i \in 1..Len(p) |-> IF p[i] = FS THEN BS ELSE LowerChar(p[i])]

\* C12: two path strings with the same lower-cased, backslash-unified form
\* get the same path_id, and the implementations of ingest, backfill and
\* relocate return the same id for the same string.
C12_PathIdPureAndShared ==
  /\ \A i \in DOMAIN plan :
       Unified(scan.p1) = Unified(scan.p2) => plan[i][1] = plan[i][2]
  /\ \A i, j \in DOMAIN plan : plan[i] = plan[j]

\* all three implementations hashed two different spellings of one path
C12_Witness ==
  /\ DOMAIN plan = {"ingest", "backfill", "relocate"}
  /\ scan.p1 # scan.p2
  /\ Unified(scan.p1) = Unified(scan.p2)
  /\ plan["backfill"][1] = plan["relocate"][2]

\* the scanned files the backfill planner has gone through
BackfillDone ==
  IF scan # NoScan /\ scan.program = "backfill" THEN 1..Len(plan.per_file) ELSE {}

\* Paths of store d with an Observation matching the name and size of sf
NameSizeMatches(d, sf) ==
  {q \in DOMAIN d.paths :
     /\ d.paths[q].name = sf.name
     /\ \E r \in DOMAIN d.runs : /\ <<r, q>> \in DOMAIN d.observations
                                 /\ d.observations[<<r, q>>].size_bytes = sf.size}

\* the file has a drive-remap match: the options map some old drive to the
\* file's drive and the store tracks the file's path under that old drive
RemapMatch(d, drive_map, sf) ==
  \E old \in DOMAIN drive_map :
    /\ drive_map[old] = SubSeq(sf.win_path, 1, 2)
    /\ \E q \in DOMAIN d.paths :
         d.paths[q].path = old \o SubSeq(sf.win_path, 3, Len(sf.win_path))

\* a scanned file the rename detection decides: not corrupt, not tracked, no
\* drive-remap match
RenameCase(i) ==
  /\ ~scan.scanned[i].corrupt_candidate
  /\ \A q \in DOMAIN db.paths : db.paths[q].path # scan.scanned[i].win_path
  /\ ~RemapMatch(db, scan.drive_map, scan.scanned[i])

\* C13: for a non-corrupt scanned file that is not tracked and has no
\* drive-remap match, exactly one Path with an Observation matching (name,
\* size_bytes) gives one plan row planned/rename_detected with that Path's id;
\* two or more give skipped/rename_ambiguous and nothing to apply; none gives
\* planned/missing_path with path_id = path_id_for(scanned path).
C13_RenameTrichotomy ==
  \A i \in BackfillDone :
    RenameCase(i) =>
      LET sf == scan.scanned[i]
          M == NameSizeMatches(db, sf)
          rows == plan.per_file[i].plan
      IN /\ Len(rows) = 1
         /\ Cardinality(M) = 1 =>
              /\ rows[1].status = "planned" /\ rows[1].reason = "rename_detected"
              /\ rows[1].path_id \in M
         /\ Cardinality(M) >= 2 =>
              /\ rows[1].status = "skipped" /\ rows[1].reason = "rename_ambiguous"
              /\ plan.per_file[i].apply = <<>>
         /\ Cardinality(M) = 0 =>
              /\ rows[1].status = "planned" /\ rows[1].reason = "missing_path"
              /\ rows[1].path_id = path_id_for(sf.win_path)

\* one run planned an ambiguous rename for a file and a new path for the same
\* file seen with another size
C13_Witness ==
  /\ scan # NoScan /\ scan.program = "backfill"
  /\ plan.written
  /\ Len(plan.rows_for_plan) = 2
  /\ plan.rows_for_plan[1].reason = "rename_ambiguous"
  /\ plan.rows_for_plan[2].reason = "missing_path"
  /\ RenameCase(1) /\ RenameCase(2)

\* ------------------------------------------------------------------ C14
\* the files the relocate planner loop has processed so far
RelocateDone ==
  IF scan # NoScan /\ scan.program = "relocate" THEN 1..Len(plan.per_file) ELSE {}

\* the scanned files already processed that are not corrupt candidates
SoundPaths ==
  { scan.scanned[j].win_path :
      j \in { k \in BackfillDone \cup RelocateDone : ~scan.scanned[k].corrupt_candidate } }

\* C14: a scanned file flagged corrupt_candidate gets one plan row of status
\* "error" and nothing else: the backfill planner queues no insert, remap,
\* rename or observation for it, the relocate planner no move and no
\* registration, whatever the store holds; every queued operation belongs to
\* a file that is not a corrupt candidate.
C14_CorruptNeverPlanned ==
  /\ \A i \in BackfillDone :
       scan.scanned[i].corrupt_candidate =>
         /\ Len(plan.per_file[i].plan) = 1
         /\ plan.per_file[i].plan[1].status = "error"
         /\ plan.per_file[i].plan[1].path = scan.scanned[i].win_path
         /\ plan.per_file[i].apply = <<>>
  /\ \A i \in RelocateDone :
       scan.scanned[i].corrupt_candidate =>
         /\ Len(plan.per_file[i].plan) = 1
         /\ plan.per_file[i].plan[1].status = "error"
         /\ plan.per_file[i].plan[1].src = scan.scanned[i].win_path
         /\ plan.per_file[i].move = <<>>
         /\ plan.per_file[i].autoreg = <<>>
  /\ BackfillDone # {} =>
       \A k \in 1..Len(plan.rows_for_apply) : plan.rows_for_apply[k].path \in SoundPaths
  /\ RelocateDone # {} =>
       /\ \A k \in 1..Len(plan.rows_for_move) : plan.rows_for_move[k].src \in SoundPaths
       /\ \A k \in 1..Len(plan.rows_for_autoreg) :
            plan.rows_for_autoreg[k].path \in SoundPaths

\* a relocate run planned a move for one file and met a corrupt candidate
C14_Witness ==
  /\ RelocateDone # {}
  /\ plan.written
  /\ Len(plan.rows_for_move) = 1
  /\ \E i \in RelocateDone : /\ scan.scanned[i].corrupt_candidate
                             /\ plan.per_file[i].plan[1].status = "error"

\* ------------------------------------------------------------------ C15
\* C15: the backfill planner emits exactly one plan row for every scanned
\* file, with a status among planned, remapped, skipped and error; the plan
\* written at the end has as many rows as files were scanned.
C15_OnePlanRowPerScannedFile ==
  /\ \A i \in BackfillDone :
       /\ Len(plan.per_file[i].plan) = 1
       /\ plan.per_file[i].plan[1].path = scan.scanned[i].win_path
       /\ plan.per_file[i].plan[1].status \in {"planned", "remapped", "skipped", "error"}
  /\ (BackfillDone # {} /\ plan.written) => Len(plan.rows_for_plan) = Len(scan.scanned)

\* ------------------------------------------------------------------ C16
\* the duplicate groups the dedup planner has processed so far
DedupGroupsDone ==
  IF scan # NoScan /\ scan.program = "dedup" THEN 1..Len(plan.per_group) ELSE {}

\* the reorderings of a list
PermsOf(seq) ==
  { [i \in 1..Len(seq) |-> seq[f[i]]] :
      f \in { g \in [1..Len(seq) -> 1..Len(seq)] :
                \A i, j \in 1..Len(seq) : g[i] = g[j] => i = j } }

\* C16: for every cohort the planner ranks, choose_keep returns the same
\* candidate for every permutation of the cohort, and no member of the cohort
\* ranks before it (not_corrupt, resolution, size, mtime descending, then
\* path ascending).
C16_ChooseKeepOrderIndependent ==
  \A g \in DedupGroupsDone :
    \A c \in 1..Len(plan.per_group[g].cohorts) :
      \A perm \in PermsOf(plan.per_group[g].cohorts[c].members) :
        /\ choose_keep(perm) = choose_keep(plan.per_group[g].cohorts[c].members)
        /\ \A i \in 1..Len(perm) : ~RankBefore(perm[i], choose_keep(perm))

\* ------------------------------------------------------------------ C17
\* a row is eligible: confident enough, and not awaiting review unless allowed
EligibleRow(x) ==
  /\ x.confidence >= CONFIDENCE_THRESHOLD
  /\ scan.allow_needs_review \/ ~x.needs_review

\* the eligible members of processed group g, by position in the group
EligibleOf(g) ==
  { i \in 1..Len(plan.per_group[g].arr) : EligibleRow(plan.per_group[g].arr[i]) }

\* group g has to go to manual review
NeedsManualReview(g) ==
  \/ Cardinality(EligibleOf(g)) < 2
  \/ /\ scan.keep_terrestrial_and_bscs
     /\ \E i \in EligibleOf(g) : plan.per_group[g].arr[i].bucket = "unknown"
     /\ \E i \in EligibleOf(g) : plan.per_group[g].arr[i].bucket \in {"terrestrial", "bs_cs"}

\* C17: a group with fewer than two eligible rows, or (bucket policy on) with
\* an eligible unknown-bucket row next to an eligible terrestrial or bs_cs
\* row, gets manual_review_required for every one of its rows and no keep or
\* drop.
C17_ManualReviewAllOrNothing ==
  \A g \in DedupGroupsDone :
    NeedsManualReview(g) =>
      /\ \A i \in 1..Len(plan.per_group[g].arr) :
           \E k \in 1..Len(plan.per_group[g].rows) :
             /\ plan.per_group[g].rows[k].path_id = plan.per_group[g].arr[i].path_id
             /\ plan.per_group[g].rows[k].decision = "manual_review_required"
      /\ \A k \in 1..Len(plan.per_group[g].rows) :
           plan.per_group[g].rows[k].decision = "manual_review_required"

\* a group of three went to manual review because an unknown-bucket row is
\* eligible next to a terrestrial one
C17_Witness ==
  \E g \in DedupGroupsDone :
    /\ Cardinality(EligibleOf(g)) >= 2
    /\ NeedsManualReview(g)
    /\ Len(plan.per_group[g].arr) = 3
    /\ Len(plan.per_group[g].rows) = 3
    /\ plan.written

\* ------------------------------------------------------------------ C18
\* the cohort names of a run, and the members of cohort b of group g
CohortNames ==
  IF scan.keep_terrestrial_and_bscs THEN {"terrestrial", "bs_cs", "unknown"} ELSE {"all"}
CohortOf(g, b) ==
  { i \in EligibleOf(g) :
      scan.keep_terrestrial_and_bscs => plan.per_group[g].arr[i].bucket = b }

\* the plan rows of group g about member i
RowsAbout(g, i) ==
  { k \in 1..Len(plan.per_group[g].rows) :
      plan.per_group[g].rows[k].path_id = plan.per_group[g].arr[i].path_id }

\* C18: in a group that is not routed to manual review, every non-empty
\* cohort has exactly one member with decision keep, and each of its other
\* members has decision drop.
C18_OneKeepPerCohort ==
  \A g \in DedupGroupsDone :
    ~NeedsManualReview(g) =>
      \A b \in CohortNames :
        CohortOf(g, b) # {} =>
          /\ \A i \in CohortOf(g, b) :
               /\ Cardinality(RowsAbout(g, i)) = 1
               /\ \A k \in RowsAbout(g, i) :
                    plan.per_group[g].rows[k].decision \in {"keep", "drop"}
          /\ Cardinality({ i \in CohortOf(g, b) :
                             \A k \in RowsAbout(g, i) :
                               plan.per_group[g].rows[k].decision = "keep" }) = 1

\* a group was split by bucket: a terrestrial cohort of two with a keep and a
\* drop, and a bs_cs cohort of one
C18_Witness ==
  \E g \in DedupGroupsDone :
    /\ ~NeedsManualReview(g)
    /\ scan.keep_terrestrial_and_bscs
    /\ Cardinality(CohortOf(g, "terrestrial")) = 2
    /\ Cardinality(CohortOf(g, "bs_cs")) = 1
    /\ \E k \in 1..Len(plan.per_group[g].rows) : plan.per_group[g].rows[k].decision = "drop"

\* ------------------------------------------------------------------ C19
\* C19: the plan has exactly one row for every member of a processed group,
\* eligible or not, with decision keep, drop or manual_review_required.
C19_OneRowPerGroupMember ==
  \A g \in DedupGroupsDone :
    /\ \A i \in 1..Len(plan.per_group[g].arr) : Cardinality(RowsAbout(g, i)) = 1
    /\ \A k \in 1..Len(plan.per_group[g].rows) :
         plan.per_group[g].rows[k].decision \in {"keep", "drop", "manual_review_required"}

\* ------------------------------------------------------------------ C20
\* the inventory lines the move planner has read so far
MovePlanLinesDone ==
  IF scan # NoScan /\ scan.program = "make_move_plan" THEN 1..Len(plan.per_file) ELSE {}

\* the metadata dict the store holds for the file at path p, if it holds one
HasMdDict(p) ==
  \E q \in PathRowsAt(db, p) :
    q \in DOMAIN db.path_metadata /\ db.path_metadata[q].data_json.dict
MdDictOf(p) ==
  db.path_metadata[CHOOSE q \in PathRowsAt(db, p) : q \in DOMAIN db.path_metadata].data_json.items

\* the dict breaks the placement contract: a required key is absent, or
\* needs_review is not a boolean
BreaksContract(md) ==
  \/ "program_title" \notin DOMAIN md
  \/ "air_date" \notin DOMAIN md
  \/ "needs_review" \notin DOMAIN md
  \/ md["needs_review"].t # "bool"

\* relocate: a file whose metadata breaks the contract is skipped as
\* invalid_metadata_contract and no move is planned for it
RelocateHonoursContract ==
  \A i \in RelocateDone :
    (/\ ~scan.scanned[i].corrupt_candidate
     /\ HasMdDict(scan.scanned[i].win_path)
     /\ BreaksContract(MdDictOf(scan.scanned[i].win_path)))
    => /\ plan.per_file[i].move = <<>>
       /\ plan.per_file[i].plan[1].status = "skipped"
       /\ plan.per_file[i].plan[1].reason = "invalid_metadata_contract"

\* make_move_plan: no move line is written for a file whose metadata breaks
\* the contract
MovePlanHonoursContract ==
  \A i \in MovePlanLinesDone :
    (/\ HasMdDict(scan.scanned[i].win_path)
     /\ BreaksContract(MdDictOf(scan.scanned[i].win_path)))
    => /\ plan.per_file[i].plan = <<>>
       /\ plan.per_file[i].outcome # "planned"

\* C20: neither relocate_existing_files nor make_move_plan_from_inventory
\* plans a move from metadata that lacks program_title, air_date or
\* needs_review, or whose needs_review is not a boolean; relocate reports
\* such a file as invalid_metadata_contract.
C20_ContractNeverDefaulted ==
  /\ RelocateHonoursContract
  /\ MovePlanHonoursContract

\* rows of to_upsert of batch n that are the last one for their path_id
LastUpserts(n) ==
  {i \in 1..Len(batches[n].to_upsert) :
     \A j \in (i + 1)..Len(batches[n].to_upsert) :
        batches[n].to_upsert[j].path_id # batches[n].to_upsert[i].path_id}

\* C21: after a committed metadata upsert from source S, the path_metadata
\* table holds one row per path_id, and the row of every path_id the batch
\* wrote holds exactly S's source, the written line as data and the batch's
\* timestamp, whatever source wrote the row before; no other row changed.
C21_LatestWriteWins ==
  \A n \in Committed("metadata") :
    /\ \A i \in LastUpserts(n) :
         /\ batches[n].to_upsert[i].path_id \in DOMAIN batches[n].post.path_metadata
         /\ batches[n].post.path_metadata[batches[n].to_upsert[i].path_id]
              = [source |-> batches[n].source,
                 data_json |-> batches[n].to_upsert[i].data_json,
                 updated_at |-> batches[n].updated_at]
    /\ \A q \in DOMAIN batches[n].post.path_metadata :
         \/ \E i \in 1..Len(batches[n].to_upsert) : batches[n].to_upsert[i].path_id = q
         \/ /\ q \in DOMAIN batches[n].pre.path_metadata
            /\ batches[n].post.path_metadata[q] = batches[n].pre.path_metadata[q]

\* a human upsert over the row an llm wrote, after a collision merge moved
\* that row's file
C21_Witness ==
  \E n \in Committed("metadata"), m \in Committed("apply") :
    /\ m < n
    /\ batches[m].counters.merged_conflicts > 0
    /\ batches[n].source = "human"
    /\ Len(batches[n].to_upsert) = 1
    /\ batches[n].to_upsert[1].path_id \in DOMAIN batches[n].pre.path_metadata
    /\ batches[n].pre.path_metadata[batches[n].to_upsert[1].path_id].source = "llm"
    /\ batches[n].post.path_metadata[batches[n].to_upsert[1].path_id].source = "human"

\* the path ids an Event carries: its two path-id columns and the ids in its
\* detail payload
IdsNamedBy(e) ==
  {e.src_path_id, e.dst_path_id, e.detail_json.db_collision_with_path_id} \ {NULL}

\* the Event of the i-th move row of batch n
EventOfRow(n, i) == batches[n].post.events[Len(batches[n].pre.events) + i]

\* C23: the Event of a collision merge of source id S into destination id D
\* records db_update = merged_into_existing_destination_path_row, carries the
\* per-table repoint counts, and names both S and D in its path-id columns or
\* its detail payload.
C23_MergeEventNamesBothIds ==
  \A n \in Committed("apply") :
    \A i \in 1..Len(batches[n].move_rows) :
      EventOfRow(n, i).detail_json.db_update = "merged_into_existing_destination_path_row"
        => /\ EventOfRow(n, i).detail_json.db_merge # <<>>
           /\ batches[n].move_rows[i].path_id \in IdsNamedBy(EventOfRow(n, i))

\* committed single-row apply batches that merged their row's path_id into
\* the owner of dst
MergeBatches ==
  {n \in Committed("apply") :
     /\ Len(batches[n].move_rows) = 1
     /\ batches[n].counters.merged_conflicts = 1}
MergedSrc(n) == batches[n].move_rows[1].path_id
MergedDst(n) == OwnerOf(batches[n].pre, batches[n].move_rows[1].dst)

\* the PathMetadata row the claim names the winner between src and dst, both
\* having a row in md: the human_reviewed one, else the later updated_at, else dst
MetadataWinner(md, src, dst) ==
  IF md[src].data_json.human_reviewed # md[dst].data_json.human_reviewed
  THEN IF md[src].data_json.human_reviewed THEN src ELSE dst
  ELSE IF md[src].updated_at > md[dst].updated_at THEN src ELSE dst

MetadataResolved(before, after, src, dst) ==
  /\ src \notin DOMAIN after
  /\ (src \notin DOMAIN before /\ dst \notin DOMAIN before) => dst \notin DOMAIN after
  /\ (src \in DOMAIN before /\ dst \notin DOMAIN before)
       => dst \in DOMAIN after /\ after[dst] = before[src]
  /\ (src \notin DOMAIN before /\ dst \in DOMAIN before)
       => dst \in DOMAIN after /\ after[dst] = before[dst]
  /\ (src \in DOMAIN before /\ dst \in DOMAIN before)
       => dst \in DOMAIN after /\ after[dst] = before[MetadataWinner(before, src, dst)]

\* C24: after a merge of src into dst the destination id holds the metadata row
\* of the only side that had one, or, when both had one, the human_reviewed
\* row, ties going to the greater updated_at and exact ties to the
\* destination; the stored source, data_json and updated_at are the winner's,
\* and the source id has no row.
C24_MetadataResolution ==
  \A n \in MergeBatches :
    MetadataResolved(batches[n].pre.path_metadata, batches[n].post.path_metadata,
                     MergedSrc(n), MergedDst(n))

\* a merge where the source's row is newer but the destination's is human_reviewed
C24_Witness ==
  \E n \in MergeBatches :
    /\ {MergedSrc(n), MergedDst(n)} \subseteq DOMAIN batches[n].pre.path_metadata
    /\ batches[n].pre.path_metadata[MergedDst(n)].data_json.human_reviewed
    /\ ~batches[n].pre.path_metadata[MergedSrc(n)].data_json.human_reviewed
    /\ batches[n].pre.path_metadata[MergedSrc(n)].updated_at
         > batches[n].pre.path_metadata[MergedDst(n)].updated_at
    /\ batches[n].post.path_metadata[MergedDst(n)].source = "human"

\* the later-started of two runs of store d (NULLRUN when neither is set)
MoreRecentRun(d, a, b) ==
  IF a = NULLRUN THEN b
  ELSE IF b = NULLRUN THEN a
  ELSE IF d.runs[a].started_at >= d.runs[b].started_at THEN a ELSE b

\* the FilePath link the claim describes for file f after src's link met dst's
LinksMerged(d, before, after, f, src, dst) ==
  /\ <<f, dst>> \in DOMAIN after
  /\ <<f, src>> \notin DOMAIN after
  /\ <<f, dst>> \notin DOMAIN before => after[<<f, dst>>] = before[<<f, src>>]
  /\ <<f, dst>> \in DOMAIN before =>
       /\ after[<<f, dst>>].is_current
            = Max2(before[<<f, src>>].is_current, before[<<f, dst>>].is_current)
       /\ after[<<f, dst>>].first_seen_run_id
            \in {before[<<f, src>>].first_seen_run_id, before[<<f, dst>>].first_seen_run_id}
       /\ after[<<f, dst>>].first_seen_run_id = NULLRUN
            => /\ before[<<f, src>>].first_seen_run_id = NULLRUN
               /\ before[<<f, dst>>].first_seen_run_id = NULLRUN
       /\ after[<<f, dst>>].last_seen_run_id
            = MoreRecentRun(d, before[<<f, src>>].last_seen_run_id,
                            before[<<f, dst>>].last_seen_run_id)

\* C25: after a merge of src into dst every file linked to src has exactly
\* one link, to dst, and none to src; where dst already had a link for the
\* file, is_current is the OR of the two, first_seen_run_id is whichever is
\* non-null, and last_seen_run_id is the more recent of the two rows'
\* last-seen runs (the non-null one if only one is set).
C25_FilePathLinksMerged ==
  \A n \in MergeBatches :
    \A k \in DOMAIN batches[n].pre.file_paths :
      k[2] = MergedSrc(n)
        => LinksMerged(batches[n].pre, batches[n].pre.file_paths,
                       batches[n].post.file_paths, k[1], MergedSrc(n), MergedDst(n))

\* C26: after a merge of src into dst, for every run for which src or dst had
\* an Observation there is exactly one Observation (run, dst); it carries
\* src's values whenever src had a row for that run and dst's otherwise; no
\* Observation with path_id src remains and no other Observation changed.
C26_ObservationsLoseNoRun ==
  \A n \in MergeBatches :
    /\ \A k \in DOMAIN batches[n].pre.observations :
         k[2] \in {MergedSrc(n), MergedDst(n)}
           => /\ <<k[1], MergedDst(n)>> \in DOMAIN batches[n].post.observations
              /\ batches[n].post.observations[<<k[1], MergedDst(n)>>]
                   = IF <<k[1], MergedSrc(n)>> \in DOMAIN batches[n].pre.observations
                     THEN batches[n].pre.observations[<<k[1], MergedSrc(n)>>]
                     ELSE batches[n].pre.observations[<<k[1], MergedDst(n)>>]
    /\ \A k \in DOMAIN batches[n].post.observations :
         /\ k[2] # MergedSrc(n)
         /\ \/ k \in DOMAIN batches[n].pre.observations
            \/ <<k[1], MergedSrc(n)>> \in DOMAIN batches[n].pre.observations

\* a merge where src was observed at both runs and dst at one of them, with
\* different values
C26_Witness ==
  \E n \in MergeBatches :
    /\ {<<1, MergedSrc(n)>>, <<LaterRun, MergedSrc(n)>>, <<1, MergedDst(n)>>}
         \subseteq DOMAIN batches[n].pre.observations
    /\ <<LaterRun, MergedDst(n)>> \notin DOMAIN batches[n].pre.observations
    /\ batches[n].pre.observations[<<1, MergedSrc(n)>>]
         # batches[n].pre.observations[<<1, MergedDst(n)>>]
    /\ {k \in DOMAIN batches[n].post.observations : k[2] = MergedDst(n)}
         = {<<1, MergedDst(n)>>, <<LaterRun, MergedDst(n)>>}

\* every Observation, PathMetadata, FilePath and PathTag row of store d
\* references an existing Path row
ReferencesOk(d) ==
  /\ \A k \in DOMAIN d.observations : k[2] \in DOMAIN d.paths
  /\ \A k \in DOMAIN d.path_metadata : k \in DOMAIN d.paths
  /\ \A k \in DOMAIN d.file_paths : k[2] \in DOMAIN d.paths
  /\ \A k \in DOMAIN d.path_tags : k[1] \in DOMAIN d.paths

\* no two Path rows of store d share a path string
UniquePaths(d) ==
  \A p, q \in DOMAIN d.paths : d.paths[p].path = d.paths[q].path => p = q

\* C27: if before an apply batch every Observation, PathMetadata, FilePath and
\* PathTag row references an existing Path row, then after the batch commits
\* the same holds and no two Path rows share a path string, whatever mix of
\* simple updates, merges, replays and missing-source rows the batch held.
C27_ReferentialIntegrity ==
  \A n \in Committed("apply") :
    ReferencesOk(batches[n].pre)
      => ReferencesOk(batches[n].post) /\ UniquePaths(batches[n].post)

\* a committed batch of two rows naming the same path_id, one of them merged,
\* on a store whose four dependent tables all reference both paths
C27_Witness ==
  \E n \in Committed("apply") :
    /\ ReferencesOk(batches[n].pre)
    /\ Len(batches[n].move_rows) = 2
    /\ batches[n].move_rows[1].path_id = batches[n].move_rows[2].path_id
    /\ batches[n].counters.merged_conflicts = 1
    /\ batches[n].counters.updated = 1
    /\ batches[n].pre.file_paths # EmptyTable
    /\ batches[n].pre.path_tags # EmptyTable
    /\ batches[n].pre.observations # EmptyTable
    /\ batches[n].pre.path_metadata # EmptyTable

\* finished ingest batches whose records all carry a path
IngestWithPaths ==
  {n \in 1..Len(batches) :
     /\ batches[n].kind = "inventory"
     /\ \A i \in 1..Len(batches[n].applied) : Truthy(batches[n].applied[i].path)}

\* C28: in any store reached through earlier ingest and apply batches, an
\* ingest batch whose records all carry a path commits: a record whose path is
\* held by a Path row under another path_id does not abort it, and a record
\* whose computed path_id is that of a row since moved elsewhere does not
\* rewrite that row's path back to the old location.
C28_IngestRobustToMoves ==
  \A n \in IngestWithPaths :
    /\ batches[n].outcome = "committed"
    /\ \A i \in 1..Len(batches[n].applied) :
         \A q \in DOMAIN batches[n].pre.paths :
           (/\ q = path_id_for(batches[n].applied[i].path)
            /\ batches[n].pre.paths[q].path # batches[n].applied[i].path)
             => /\ q \in DOMAIN batches[n].post.paths
                /\ batches[n].post.paths[q].path = batches[n].pre.paths[q].path

\* C29: within one backfill plan no two distinct scanned files receive apply
\* operations (insert_or_upsert, remap_update, rename_update, obs_only)
\* carrying the same path_id.
C29_NoIdentityAssignedTwice ==
  \A i, j \in BackfillDone :
    scan.scanned[i].win_path # scan.scanned[j].win_path
      => \A a \in 1..Len(plan.per_file[i].apply), b \in 1..Len(plan.per_file[j].apply) :
           plan.per_file[i].apply[a].path_id # plan.per_file[j].apply[b].path_id

\* C30: in a relocate run the mover is invoked only under --apply and with an
\* empty error list (no scan error, no failed auto-register); the store update
\* from move outcomes starts only after the mover has returned its result
\* file; a dry run invokes no mover and leaves every table as it found it.
C30_RelocateApplyOrdering ==
  /\ [](scan # NoScan /\ scan.program = "relocate" =>
          /\ plan.tail.mover_invoked =>
               /\ scan.apply
               /\ scan.scan_errors = <<>>
               /\ plan.tail.autoreg \in {"skipped", "committed"}
          /\ (pc # "idle" \/ batches # <<>>) =>
               plan.tail.mover_invoked /\ plan.tail.mover_returned
          /\ ~scan.apply =>
               ~plan.tail.mover_invoked /\ db = plan.tail.store0 /\ batches = <<>>)
  /\ [][scan # NoScan /\ scan.program = "relocate"
          /\ ~plan.tail.mover_invoked /\ plan'.tail.mover_invoked
        => scan.apply /\ plan.tail.errors = <<>>]_vars
C30_Witness ==
  /\ scan # NoScan /\ scan.program = "relocate"
  /\ plan.tail.autoreg = "committed"
  /\ plan.tail.mover_invoked /\ plan.tail.mover_returned
  /\ batches # <<>> /\ batches[1].outcome = "committed"
  /\ db # plan.tail.store0
  /\ plan.tail.printed

\* C22: a backfill, dedup or relocate run that prints its summary exits
\* non-zero exactly when its error list is non-empty (summary ok = false), and
\* a run that dies before its summary exits non-zero; at the summary the scan
\* warnings add to the error list exactly under policy fail with a warning, or
\* policy threshold with more warnings than the threshold or a threshold <= 0,
\* and never in a dedup run.
PolicyMakesWarningsFatal(policy, threshold, warnings) ==
  \/ policy = "fail" /\ warnings > 0
  \/ policy = "threshold" /\ (warnings > threshold \/ threshold <= 0)
====
